---- MODULE Spec2Model ----
(***************************************************************************)
(* Verification model of the Twitch Gemini Translator pipeline:            *)
(*   - the background request queues (two generations of requestQueue.js), *)
(*   - the translation caches (timestamp Map, LRUCache, expiresAt object), *)
(*   - the content script's channel-transition / grace-period / ingest     *)
(*     logic.                                                              *)
(* Each component has its own specification over the shared variables.     *)
(***************************************************************************)
EXTENDS Integers, Sequences, FiniteSets, TLC

(***************************************************************************)
(* Bounds of the model.                                                    *)
(***************************************************************************)
MaxItems == 5            \* translate requests enqueued in one behaviour
MaxConfigConcurrent == 2 \* largest maxConcurrentRequests the v2 queue is configured with

\* v1 MAX_CONCURRENT_REQUESTS (5 in the source), scaled down with MaxItems
MAX_CONCURRENT_REQUESTS == 3
MaxTime == 3             \* last clock reading (Date.now()) of a behaviour
MaxStoreTime == 2        \* the same, for behaviours that use the stored snapshot
\* MAX_CACHE_SIZE / maxSize / settings.maxCacheSize (1000 in the source), scaled down
MAX_CACHE_SIZE == 2
\* settings.maxCacheAge / cacheExpiration (24 h in the source), in clock ticks
MaxCacheAge == 2
MaxNavs == 2              \* URL changes in one behaviour
MaxMuts == 2              \* batches of added feed nodes in one behaviour
MaxToggles == 2           \* toggleTranslation messages in one behaviour
MaxClock == 10000         \* last clock reading of the page, ms
MaxInvalidations == 1     \* translate requests that fail with the invalidated context
MaxBatches == 2           \* MutationObserver callbacks in one behaviour
MaxBatchLen == 3          \* added nodes in one callback
MaxObsTicks == 4          \* clock ticks while the observer's timeouts run
MaxRetryEvents == 7       \* detections of the invalidated context in one behaviour

MaxTextLen == 4  \* characters of a message text

VARIABLES
  \* ---- request queue ----
  qimpl,                 \* which requestQueue module is loaded: "v1" | "v2"
  requestQueue,          \* v1 requestQueue / v2 queue: pending items, FIFO
  pendingRequests,       \* v1 counter of dispatched, unsettled calls
  isProcessing,          \* v2 batch-in-progress flag
  maxConcurrentRequests, \* v2 queueConfig.maxConcurrentRequests
  qtimers,               \* v2 number of pending setTimeout(processQueue, ...)
  status,                \* per item: state of its promise / translate call
  nextItem,              \* next item identifier to be enqueued
  invalidated,           \* history: a translate call failed with the error
                         \* "Extension context invalidated"
  \* ---- translation cache ----
  cimpl,                 \* which cache is loaded: "map" | "lru" | "obj"
  translationCache,      \* entries in Map / object key order
  cacheSnapshot,         \* chrome.storage.local / localStorage copy of the entries
  cacheInitialized,      \* obj: cacheInitialized
  now,                   \* Date.now()
  lastOp,                \* the last cache operation and what it returned
  insertedAt,            \* history: when the entry under each key was put
  \* ---- content script ----
  chimpl,                \* which handleChannelChange is loaded: "content" | "observer"
  clock,                 \* Date.now() of the page, ms
  onChannelPage,         \* isTwitchChannelPage(location.href)
  isEnabled,             \* isEnabled
  observer,              \* "null" | "live" | "grace": the MutationObserver and the
                         \* gracePeriodActive value its callback captured
  inGracePeriod,         \* session flag twitch_gemini_in_grace_period
  channelChanged,        \* session flag twitch_gemini_channel_changed
  preventExisting,       \* session flag twitch_gemini_prevent_existing
  processExistingMessages, \* settings.processExistingMessages
  requestDelay,          \* settings.requestDelay, ms
  timers,                \* pending setTimeout / debounce timers: [kind, at]
  releases,              \* pending staggered releases of feed nodes
  dom,                   \* message nodes present in the chat container
  nodeTag,               \* per node: _isNewMessage / _isExistingMessage
  translatedComments,    \* translatedComments (keys)
  inflight,              \* per message id: translate requests sent, not answered
  generation,            \* history: number of channel changes handled
  graceDeadline,         \* history: end of the running grace period, -1 if none
  submitted,             \* history: per id, requests sent since the last navigation
  lastEvent,            \* history: what the last step did: sent a request,
                         \* ended the grace period by its timer, or neither
  navs,                  \* URL changes so far
  muts,                  \* mutation batches so far
  toggles,               \* toggleTranslation messages so far
  visibleAtGraceEnd,     \* history: nodes in the feed when the grace timer fired
  halted,                \* history: the invalidated context was detected and no
                         \* re-initialisation has been attempted since
  invalidations,         \* requests failed with the invalidated context so far
  attached,              \* number of MutationObservers connected to the chat feed
  sentGen,               \* history: generation in which the latest request still in flight was sent, -1 when none
  \* ---- createMutationObserver on its own ----
  obsRequestDelay,       \* requestDelay the observer was created with, ms
  obsClock,              \* Date.now(), ms
  obsTimers,             \* pending setTimeout calls of the callback
  obsReleased,           \* history: nodes handed to nodeProcessor, in order
  obsBatches,            \* callbacks run so far
  obsSeq,                \* setTimeout calls so far
  \* ---- reconnection after the extension context was invalidated ----
  rimpl,                 \* which content script is loaded: "content" | "refactored"
  retryCount,            \* session counter twitch_gemini_retry_count / appState.retryCount
  invalidationRecent,    \* twitch_gemini_context_invalidated was set less than 30 s ago
  reconnectTimers,       \* pending delayed re-initialisations
  observing,             \* an observer is attached to the feed
  attempts,              \* history: re-initialisations scheduled since the last successful one
  retryEvents,           \* detections so far
  initialized,           \* appState.initialized of the refactored script
  capExceeded,           \* history: a detection found retryCount beyond the cap
  recentAttempt,         \* history (content.js): a re-initialisation was scheduled within the last 30 s
  lastDelay,             \* history: retry count and delay of the latest re-initialisation scheduled
  \* ---- engine tag of translation results ----
  eimpl,                 \* which background script answers: "modules" | "background" | "obj"
  cachedEngine,          \* engine field of the result stored under each cache key
  served,                \* the last result sent back: key, engine field, served from the cache
  \* ---- one call of a function without state ----
  callName,              \* the function that was called, "none" before the call
  callInput,             \* its arguments
  callOutput             \* its return value

qvars == <<qimpl, requestQueue, pendingRequests, isProcessing,
           maxConcurrentRequests, qtimers, status, nextItem, invalidated>>

cvars == <<cimpl, translationCache, cacheSnapshot, cacheInitialized, now, lastOp,
           insertedAt>>

svars == <<chimpl, clock, onChannelPage, isEnabled, observer, inGracePeriod,
           channelChanged, preventExisting, processExistingMessages, requestDelay,
           timers, releases, dom, nodeTag, translatedComments, inflight,
           generation, graceDeadline, submitted, lastEvent, navs, muts,
           toggles, visibleAtGraceEnd, halted, invalidations, sentGen, attached>>

ovars == <<obsRequestDelay, obsClock, obsTimers, obsReleased, obsBatches, obsSeq>>

rvars == <<rimpl, retryCount, invalidationRecent, reconnectTimers, observing,
           attempts, retryEvents, initialized, capExceeded, lastDelay,
           recentAttempt>>

evars == <<eimpl, cachedEngine, served>>

fvars == <<callName, callInput, callOutput>>

vars == <<qvars, cvars, svars, ovars, rvars, evars, fvars>>

\* what the actions of one component leave alone
nonQueueVars == <<cvars, svars, ovars, rvars, evars, fvars>>
nonCacheVars == <<qvars, svars, ovars, rvars, evars, fvars>>
nonContentVars == <<qvars, cvars, ovars, rvars, evars, fvars>>
nonObserverVars == <<qvars, cvars, svars, rvars, evars, fvars>>
nonReconnectVars == <<qvars, cvars, svars, ovars, evars, fvars>>
nonEngineVars == <<qvars, cvars, svars, ovars, rvars, fvars>>
nonCallVars == <<qvars, cvars, svars, ovars, rvars, evars>>

Items == 1..MaxItems

Min(a, b) == IF a < b THEN a ELSE b

SeqToSet(s) == {s[k] : k \in 1..Len(s)}

(***************************************************************************)
(* A specification runs one component; the others stay in their idle state.*)
(***************************************************************************)
\* cache keys, `${sourceLang}:${text}`
Keys == {"EN:a", "EN:b", "EN:c"}

NoEntry == [key |-> "", lastAccessed |-> 0, expiresAt |-> 0]

NoOp == [kind |-> "none", key |-> "", hit |-> FALSE, evictedAt |-> -1]

QueueIdle ==
  /\ qimpl = "none"
  /\ requestQueue = <<>>
  /\ pendingRequests = 0
  /\ isProcessing = FALSE
  /\ maxConcurrentRequests = 0
  /\ qtimers = 0
  /\ status = [i \in Items |-> "none"]
  /\ nextItem = 1
  /\ invalidated = FALSE

CacheIdle ==
  /\ cimpl = "none"
  /\ translationCache = <<>>
  /\ cacheSnapshot = <<>>
  /\ cacheInitialized = FALSE
  /\ now = 0
  /\ lastOp = NoOp
  /\ insertedAt = [k \in Keys |-> -1]

\* message ids of feed nodes (getMessageId)
Ids == {"m1"}

NoEvent == [kind |-> "none", id |-> "", gen |-> 0]

GraceEnded == [kind |-> "graceTimer", id |-> "", gen |-> 0]

ContentIdle ==
  /\ chimpl = "none"
  /\ clock = 0
  /\ onChannelPage = FALSE
  /\ isEnabled = FALSE
  /\ observer = "null"
  /\ inGracePeriod = FALSE
  /\ channelChanged = FALSE
  /\ preventExisting = FALSE
  /\ processExistingMessages = FALSE
  /\ requestDelay = 0
  /\ timers = {}
  /\ releases = {}
  /\ dom = {}
  /\ nodeTag = [m \in Ids |-> "none"]
  /\ translatedComments = {}
  /\ inflight = [m \in Ids |-> 0]
  /\ generation = 0
  /\ graceDeadline = -1
  /\ submitted = [m \in Ids |-> 0]
  /\ lastEvent = NoEvent
  /\ navs = 0
  /\ muts = 0
  /\ toggles = 0
  /\ visibleAtGraceEnd = {}
  /\ halted = FALSE
  /\ invalidations = 0
  /\ sentGen = [m \in Ids |-> -1]
  /\ attached = IF observer = "null" THEN 0 ELSE 1

ObserverIdle ==
  /\ obsRequestDelay = 0
  /\ obsClock = 0
  /\ obsTimers = {}
  /\ obsReleased = <<>>
  /\ obsBatches = 0
  /\ obsSeq = 0

ReconnectIdle ==
  /\ rimpl = "none"
  /\ retryCount = 0
  /\ invalidationRecent = FALSE
  /\ reconnectTimers = 0
  /\ observing = FALSE
  /\ attempts = 0
  /\ retryEvents = 0
  /\ initialized = FALSE
  /\ capExceeded = FALSE
  /\ lastDelay = [attempt |-> 0, delay |-> 0]
  /\ recentAttempt = FALSE

EngineIdle ==
  /\ eimpl = "none"
  /\ cachedEngine = [k \in Keys |-> "absent"]
  /\ served = [key |-> "", engine |-> "none", fromCache |-> FALSE]

CallIdle ==
  /\ callName = "none"
  /\ callInput = <<>>
  /\ callOutput = <<>>

(***************************************************************************)
(* Item status:                                                            *)
(*   "none"      not enqueued yet                                          *)
(*   "queued"    in the pending list                                       *)
(*   "batched"   v2: taken into the batch, waiting for its requestDelay    *)
(*   "inflight"  translateText called and not settled                      *)
(*   "resolved"  promise resolved with the result                          *)
(*   "rejected"  promise rejected with the translate error                 *)
(*   "cancelled" promise rejected by cancelAllRequests / clearQueue        *)
(*   "refused"   v2: promise rejected at enqueue (empty text)              *)
(***************************************************************************)
Unsettled == {"queued", "batched", "inflight"}
Settled == {"resolved", "rejected", "cancelled", "refused"}

InFlight == {i \in Items : status[i] = "inflight"}
InBatch == {i \in Items : status[i] \in {"batched", "inflight"}}

\* The concurrency limit in force for the loaded queue.
MaxConcurrent == IF qimpl = "v1" THEN MAX_CONCURRENT_REQUESTS ELSE maxConcurrentRequests

(***************************************************************************)
(* v1: processQueue dispatches at most one item per call.                  *)
(***************************************************************************)
ProcessQueueV1_NoLimit(q, p, st) ==
  IF Len(q) > 0
  THEN [queue |-> Tail(q), pending |-> p + 1,
        status |-> [st EXCEPT ![Head(q)] = "inflight"]]
  ELSE [queue |-> q, pending |-> p, status |-> st]

\* mutant: a dispatch that does not count the call it starts
ProcessQueueV1_NoCount(q, p, st) ==
  IF p < MAX_CONCURRENT_REQUESTS /\ Len(q) > 0
  THEN [queue |-> Tail(q), pending |-> p,
        status |-> [st EXCEPT ![Head(q)] = "inflight"]]
  ELSE [queue |-> q, pending |-> p, status |-> st]

ProcessQueueV1(q, p, st) ==
  IF p < MAX_CONCURRENT_REQUESTS /\ Len(q) > 0
  THEN [queue |-> Tail(q), pending |-> p + 1,
        status |-> [st EXCEPT ![Head(q)] = "inflight"]]
  ELSE [queue |-> q, pending |-> p, status |-> st]

\* .then/.catch: only the settled item's promise is touched.
SettleStatus_RejectAll(st, i, ok) ==
  IF ok THEN [st EXCEPT ![i] = "resolved"]
  ELSE [j \in Items |-> IF st[j] \in Unsettled THEN "rejected" ELSE st[j]]

SettleStatus(st, i, ok) ==
  [st EXCEPT ![i] = IF ok THEN "resolved" ELSE "rejected"]

EnqueueV1 ==
  /\ qimpl = "v1"
  /\ nextItem <= MaxItems
  /\ LET r == ProcessQueueV1(Append(requestQueue, nextItem), pendingRequests,
                             [status EXCEPT ![nextItem] = "queued"])
     IN /\ requestQueue' = r.queue
        /\ pendingRequests' = r.pending
        /\ status' = r.status
  /\ nextItem' = nextItem + 1
  /\ UNCHANGED <<qimpl, isProcessing, maxConcurrentRequests, qtimers>>
  /\ UNCHANGED invalidated
  /\ UNCHANGED nonQueueVars

\* The translate call of item i settles: .then/.catch, then .finally.
SettleV1(i, ok) ==
  /\ qimpl = "v1"
  /\ status[i] = "inflight"
  /\ LET r == ProcessQueueV1(requestQueue, pendingRequests - 1,
                             SettleStatus(status, i, ok))
     IN /\ requestQueue' = r.queue
        /\ pendingRequests' = r.pending
        /\ status' = r.status
  /\ UNCHANGED <<qimpl, isProcessing, maxConcurrentRequests, qtimers, nextItem>>
  /\ UNCHANGED invalidated
  /\ UNCHANGED nonQueueVars

\* a cancel that rejects the first pending item only
CancelStatus_HeadOnly(st, q) ==
  [j \in Items |-> IF Len(q) > 0 /\ j = Head(q) THEN "cancelled" ELSE st[j]]

\* mutant: a cancel that also rejects the items whose translate call is running
CancelStatus_AlsoInFlight(st, q) ==
  [j \in Items |-> IF j \in SeqToSet(q) \/ st[j] = "inflight" THEN "cancelled"
                   ELSE st[j]]

\* cancelAllRequests / clearQueue: reject every pending item, empty the list.
CancelStatus(st, q) ==
  [j \in Items |-> IF j \in SeqToSet(q) THEN "cancelled" ELSE st[j]]

CancelAllRequests ==
  /\ qimpl = "v1"
  /\ Len(requestQueue) > 0
  /\ status' = CancelStatus(status, requestQueue)
  /\ requestQueue' = <<>>
  /\ UNCHANGED <<qimpl, pendingRequests, isProcessing, maxConcurrentRequests,
                 qtimers, nextItem>>
  /\ UNCHANGED invalidated
  /\ UNCHANGED nonQueueVars

(***************************************************************************)
(* v2: processQueue takes a batch of min(maxConcurrentRequests, length)    *)
(* items; item 0 calls translateText at once, the others after a delay.    *)
(***************************************************************************)
BatchSize_Whole(maxc, len) == len

BatchSize(maxc, len) == Min(maxc, len)

NeedsTimer_Never(q) == FALSE

\* after the batch: more work pending => setTimeout(processQueue, requestDelay)
NeedsTimer(q) == Len(q) > 0

ProcessQueueV2(q, proc, st) ==
  IF proc THEN [queue |-> q, processing |-> proc, status |-> st]
  ELSE IF Len(q) = 0 THEN [queue |-> q, processing |-> FALSE, status |-> st]
  ELSE LET n == BatchSize(maxConcurrentRequests, Len(q))
           b == SubSeq(q, 1, n)
       IN [queue |-> SubSeq(q, n + 1, Len(q)),
           processing |-> TRUE,
           status |-> [j \in Items |->
                         IF n >= 1 /\ j = b[1] THEN "inflight"
                         ELSE IF j \in SeqToSet(b) THEN "batched"
                         ELSE st[j]]]

EnqueueV2(empty) ==
  /\ qimpl = "v2"
  /\ nextItem <= MaxItems
  /\ nextItem' = nextItem + 1
  /\ IF empty
     THEN /\ status' = [status EXCEPT ![nextItem] = "refused"]
          /\ UNCHANGED <<requestQueue, isProcessing>>
     ELSE LET q1 == Append(requestQueue, nextItem)
              st1 == [status EXCEPT ![nextItem] = "queued"]
              r == ProcessQueueV2(q1, isProcessing, st1)
          IN /\ requestQueue' = r.queue
             /\ isProcessing' = r.processing
             /\ status' = r.status
  /\ UNCHANGED <<qimpl, pendingRequests, maxConcurrentRequests, qtimers>>
  /\ UNCHANGED invalidated
  /\ UNCHANGED nonQueueVars

\* A batched item's requestDelay elapses: translateText is called.
BatchDelayElapsed(i) ==
  /\ qimpl = "v2"
  /\ status[i] = "batched"
  /\ status' = [status EXCEPT ![i] = "inflight"]
  /\ UNCHANGED <<qimpl, requestQueue, pendingRequests, isProcessing,
                 maxConcurrentRequests, qtimers, nextItem>>
  /\ UNCHANGED invalidated
  /\ UNCHANGED nonQueueVars

\* A translate call of the batch settles; when it was the last one of the
\* batch, Promise.all resolves: isProcessing is cleared and the next batch is
\* scheduled by a timer when items are pending.
SettleV2(i, ok) ==
  /\ qimpl = "v2"
  /\ status[i] = "inflight"
  /\ status' = SettleStatus(status, i, ok)
  /\ IF InBatch = {i}
     THEN /\ isProcessing' = FALSE
          /\ qtimers' = IF NeedsTimer(requestQueue) THEN qtimers + 1 ELSE qtimers
     ELSE UNCHANGED <<isProcessing, qtimers>>
  /\ UNCHANGED <<qimpl, requestQueue, pendingRequests, maxConcurrentRequests, nextItem>>
  /\ UNCHANGED invalidated
  /\ UNCHANGED nonQueueVars

\* setTimeout(processQueue, requestDelay) fires.
QueueTimerV2 ==
  /\ qimpl = "v2"
  /\ qtimers > 0
  /\ qtimers' = qtimers - 1
  /\ LET r == ProcessQueueV2(requestQueue, isProcessing, status)
     IN /\ requestQueue' = r.queue
        /\ isProcessing' = r.processing
        /\ status' = r.status
  /\ UNCHANGED <<qimpl, pendingRequests, maxConcurrentRequests, nextItem>>
  /\ UNCHANGED invalidated
  /\ UNCHANGED nonQueueVars

ClearQueue ==
  /\ qimpl = "v2"
  /\ Len(requestQueue) > 0
  /\ status' = CancelStatus(status, requestQueue)
  /\ requestQueue' = <<>>
  /\ UNCHANGED <<qimpl, pendingRequests, isProcessing, maxConcurrentRequests,
                 qtimers, nextItem>>
  /\ UNCHANGED invalidated
  /\ UNCHANGED nonQueueVars

\* The translate call of item i rejects with "Extension context invalidated":
\* the same .catch and .finally as for any other error.
InvalidatedV1(i) ==
  /\ qimpl = "v1"
  /\ status[i] = "inflight"
  /\ LET r == ProcessQueueV1(requestQueue, pendingRequests - 1,
                             SettleStatus(status, i, FALSE))
     IN /\ requestQueue' = r.queue
        /\ pendingRequests' = r.pending
        /\ status' = r.status
  /\ invalidated' = TRUE
  /\ UNCHANGED <<qimpl, isProcessing, maxConcurrentRequests, qtimers, nextItem>>
  /\ UNCHANGED nonQueueVars

InvalidatedV2(i) ==
  /\ qimpl = "v2"
  /\ status[i] = "inflight"
  /\ status' = SettleStatus(status, i, FALSE)
  /\ IF InBatch = {i}
     THEN /\ isProcessing' = FALSE
          /\ qtimers' = IF NeedsTimer(requestQueue) THEN qtimers + 1 ELSE qtimers
     ELSE UNCHANGED <<isProcessing, qtimers>>
  /\ invalidated' = TRUE
  /\ UNCHANGED <<qimpl, requestQueue, pendingRequests, maxConcurrentRequests, nextItem>>
  /\ UNCHANGED nonQueueVars

InitQueue ==
  /\ qimpl \in {"v1", "v2"}
  /\ requestQueue = <<>>
  /\ pendingRequests = 0
  /\ isProcessing = FALSE
  /\ maxConcurrentRequests \in
       IF qimpl = "v2" THEN 1..MaxConfigConcurrent ELSE {MAX_CONCURRENT_REQUESTS}
  /\ qtimers = 0
  /\ status = [i \in Items |-> "none"]
  /\ nextItem = 1
  /\ invalidated = FALSE
  /\ CacheIdle
  /\ ContentIdle
  /\ ObserverIdle
  /\ ReconnectIdle
  /\ EngineIdle
  /\ CallIdle

NextQueue ==
  \/ EnqueueV1
  \/ \E i \in Items, ok \in BOOLEAN : SettleV1(i, ok)
  \/ CancelAllRequests
  \/ \E empty \in BOOLEAN : EnqueueV2(empty)
  \/ \E i \in Items : BatchDelayElapsed(i)
  \/ \E i \in Items, ok \in BOOLEAN : SettleV2(i, ok)
  \/ QueueTimerV2
  \/ ClearQueue

SpecQueue == InitQueue /\ [][NextQueue]_vars

\* the queue with translate calls that may fail with the context-invalidated
\* error
NextQueueInvalidated ==
  \/ NextQueue
  \/ \E i \in Items : InvalidatedV1(i)
  \/ \E i \in Items : InvalidatedV2(i)

SpecQueueInvalidated == InitQueue /\ [][NextQueueInvalidated]_vars

\* Every translate call settles; every timer fires.
QueueFairness ==
  /\ \A i \in Items : WF_vars(\E ok \in BOOLEAN : SettleV1(i, ok))
  /\ \A i \in Items : WF_vars(\E ok \in BOOLEAN : SettleV2(i, ok))
  /\ \A i \in Items : WF_vars(BatchDelayElapsed(i))
  /\ WF_vars(QueueTimerV2)

SpecQueueFair == InitQueue /\ [][NextQueue]_vars /\ QueueFairness

(***************************************************************************)
(* C1: the number of translate calls started and not yet settled never     *)
(* exceeds maxConcurrent, for every sequence of enqueues and settlements.  *)
(***************************************************************************)
C1_BoundedConcurrency == Cardinality(InFlight) <= MaxConcurrent

\* the limit is reached while further items wait in the pending list
C1_Witness ==
  /\ Cardinality(InFlight) = MaxConcurrent
  /\ Len(requestQueue) >= 1

(***************************************************************************)
(* C5: when the translate call of one item fails, only that item's promise *)
(* is rejected with the error; the other items keep their state or move on *)
(* to dispatch, and the queue never stalls while items are pending.        *)
(***************************************************************************)
\* a step in which some promise is rejected with a translate error
FailureStep == \E i \in Items : status[i] # "rejected" /\ status'[i] = "rejected"

OnlyTheFailedItem ==
  \E i \in Items :
    /\ status[i] = "inflight" /\ status'[i] = "rejected"
    /\ \A j \in Items \ {i} :
         \/ status'[j] = status[j]
         \/ status[j] = "queued" /\ status'[j] \in {"batched", "inflight"}

\* pending items are always going to be looked at again
QueueAlive ==
  Len(requestQueue) > 0 =>
    IF qimpl = "v1" THEN Cardinality(InFlight) = MAX_CONCURRENT_REQUESTS
    ELSE isProcessing \/ qtimers > 0

C5_FailureIsolation == [][FailureStep => OnlyTheFailedItem]_vars /\ []QueueAlive

\* an item failed, and items queued before and after it succeeded
C5_Witness ==
  \E i, j, k \in Items :
    /\ i < j /\ j < k
    /\ status[i] = "resolved" /\ status[j] = "rejected" /\ status[k] = "resolved"

(***************************************************************************)
(* C9: every enqueued request is eventually settled (resolved or           *)
(* rejected), provided every translate call settles and every timer fires. *)
(***************************************************************************)
C9_EventuallySettled ==
  \A i \in Items : (status[i] \in Unsettled) ~> (status[i] \in Settled)

\* all requests were enqueued, some had to wait, and every one is settled
C9_Witness ==
  /\ nextItem > MaxItems
  /\ \A i \in Items : status[i] \in {"resolved", "rejected"}

(***************************************************************************)
(* C18: cancelAllRequests / clearQueue rejects every item of the pending   *)
(* list and leaves the list empty, and a cancelled item is never           *)
(* dispatched to translateText afterwards.                                 *)
(***************************************************************************)
CancelStep ==
  \E j \in Items : status[j] # "cancelled" /\ status'[j] = "cancelled"

AllPendingCancelled ==
  /\ requestQueue' = <<>>
  /\ \A j \in SeqToSet(requestQueue) : status'[j] = "cancelled"

CancelledStays ==
  \A j \in Items : status[j] = "cancelled" => status'[j] = "cancelled"

C19_StopsDrainingWhenInvalidated ==
  [][invalidated' =>
       \A j \in Items :
         status[j] = "queued" => status'[j] \in {"queued", "cancelled"}]_vars

(***************************************************************************)
(* Translation caches.                                                     *)
(*   "map": Map keyed by sourceLang:text, entries {translation, timestamp} *)
(*          (background.js and background/modules/cache.js, same code)     *)
(*   "lru": utils/cache.js LRUCache, a Map kept in recency order           *)
(*   "obj": the cache section of background/modules/settings.js, entries   *)
(*          {data, createdAt, lastAccessed, expiresAt}                     *)
(* An entry is modelled as [key, lastAccessed, expiresAt].  "map" stores    *)
(* one timestamp, which is lastAccessed.  "lru" stores no time at all: its *)
(* lastAccessed is history only.  translationCache is a sequence in the    *)
(* iteration order of the Map / object (insertion order of the keys).      *)
(* insertedAt[k] is history: a time no earlier than the put that created   *)
(* the entry now stored under k (-1 when k is not stored).                 *)
(***************************************************************************)
\* the expiresAt field exists in "obj" only
NewEntry(k, t) ==
  [key |-> k, lastAccessed |-> t,
   expiresAt |-> IF cimpl = "obj" THEN t + MaxCacheAge ELSE 0]

KeysOf(c) == {c[i].key : i \in 1..Len(c)}

IndexOf(c, k) == CHOOSE i \in 1..Len(c) : c[i].key = k

\* Map.delete(key) / delete obj[key]
Remove(c, k) == SelectSeq(c, LAMBDA e : e.key # k)

\* Map.set(key, value) / obj[key] = value: an existing key keeps its place
SetEntry(c, e) ==
  IF e.key \in KeysOf(c) THEN [c EXCEPT ![IndexOf(c, e.key)] = e] ELSE Append(c, e)

\* ---- "map" ----
OldestIndex_Newest(c, t) ==
  LET cand == {i \in 1..Len(c) : c[i].lastAccessed < t}
  IN IF cand = {} THEN 0
     ELSE CHOOSE i \in cand : \A j \in cand :
            \/ c[i].lastAccessed > c[j].lastAccessed
            \/ c[i].lastAccessed = c[j].lastAccessed /\ i >= j

\* the forEach of cacheTranslation: oldestTime starts at Date.now() and an
\* entry replaces the candidate only when its timestamp is strictly smaller;
\* 0 stands for oldestKey = null
OldestIndex(c, t) ==
  LET cand == {i \in 1..Len(c) : c[i].lastAccessed < t}
  IN IF cand = {} THEN 0
     ELSE CHOOSE i \in cand : \A j \in cand :
            \/ c[i].lastAccessed < c[j].lastAccessed
            \/ c[i].lastAccessed = c[j].lastAccessed /\ i <= j

MapPut(c, k, t) ==
  LET o == OldestIndex(c, t)
      c1 == IF Len(c) >= MAX_CACHE_SIZE /\ o # 0 THEN Remove(c, c[o].key) ELSE c
  IN SetEntry(c1, NewEntry(k, t))

MapExpired(e, t) == t - e.lastAccessed > MaxCacheAge

\* a hit stamps the entry with the time of the access
MapTouch(e, t) == [e EXCEPT !.lastAccessed = t]

MapGet(c, k, t) ==
  IF k \notin KeysOf(c) THEN [cache |-> c, entry |-> NoEntry]
  ELSE LET e == c[IndexOf(c, k)]
       IN IF MapExpired(e, t) THEN [cache |-> Remove(c, k), entry |-> NoEntry]
          ELSE [cache |-> SetEntry(c, MapTouch(e, t)), entry |-> MapTouch(e, t)]

\* initialize / loadCache: every unexpired snapshot entry is set into the Map
RECURSIVE MapLoad(_, _, _)
MapLoad(c, snap, t) ==
  IF snap = <<>> THEN c
  ELSE LET e == Head(snap)
       IN MapLoad(IF t - e.lastAccessed < MaxCacheAge THEN SetEntry(c, e) ELSE c,
                  Tail(snap), t)

\* ---- "lru" ----
LruVictim_Last(c) == c[Len(c)].key

\* this.cache.keys().next().value
LruVictim(c) == c[1].key

LruSet(c, k, t) ==
  IF k \in KeysOf(c) THEN Append(Remove(c, k), NewEntry(k, t))
  ELSE IF Len(c) >= MAX_CACHE_SIZE THEN Append(Remove(c, LruVictim(c)), NewEntry(k, t))
  ELSE Append(c, NewEntry(k, t))

LruGet(c, k, t) ==
  IF k \notin KeysOf(c) THEN [cache |-> c, entry |-> NoEntry]
  ELSE LET e == [c[IndexOf(c, k)] EXCEPT !.lastAccessed = t]
       IN [cache |-> Append(Remove(c, k), e), entry |-> e]

\* ---- "obj" ----
\* position of entry i in the stable sort by lastAccessed
SortRank(c, i) ==
  Cardinality({j \in 1..Len(c) :
                 \/ c[j].lastAccessed < c[i].lastAccessed
                 \/ c[j].lastAccessed = c[i].lastAccessed /\ j < i})

\* Math.ceil((cacheSize - maxCacheSize) + (maxCacheSize * 0.2))
ItemsToRemove(size) == (size - MAX_CACHE_SIZE) + ((MAX_CACHE_SIZE + 4) \div 5)

PruneCache_Off(c) == c

PruneCache(c) ==
  IF Len(c) <= MAX_CACHE_SIZE THEN c
  ELSE LET n == ItemsToRemove(Len(c))
           doomed == {c[i].key : i \in {j \in 1..Len(c) : SortRank(c, j) < n}}
       IN SelectSeq(c, LAMBDA e : e.key \notin doomed)

ObjPut(c, k, t) == PruneCache(SetEntry(c, NewEntry(k, t)))

ObjExpired(e, t) == t > e.expiresAt

ObjGet(c, k, t) ==
  IF k \notin KeysOf(c) THEN [cache |-> c, entry |-> NoEntry]
  ELSE LET e == c[IndexOf(c, k)]
       IN IF ObjExpired(e, t) THEN [cache |-> Remove(c, k), entry |-> NoEntry]
          ELSE LET e1 == [e EXCEPT !.lastAccessed = t]
               IN [cache |-> SetEntry(c, e1), entry |-> e1]

\* saveCache / loadCache keep the entries with now < expiresAt
ObjLive(c, t) == SelectSeq(c, LAMBDA e : t < e.expiresAt)

\* ---- history ----
\* after an operation: keys no longer stored are forgotten, the key just put
\* is stamped, a key brought back by a load takes the time its entry shows
Inserted(c1, putKey, t) ==
  [k \in Keys |->
     IF k \notin KeysOf(c1) THEN -1
     ELSE IF k = putKey THEN t
     ELSE IF insertedAt[k] # -1 /\ k \in KeysOf(translationCache)
               /\ c1[IndexOf(c1, k)].expiresAt
                    = translationCache[IndexOf(translationCache, k)].expiresAt
          THEN insertedAt[k]
     ELSE IF cimpl = "obj" THEN c1[IndexOf(c1, k)].expiresAt - MaxCacheAge
     ELSE c1[IndexOf(c1, k)].lastAccessed]

\* the latest insertion time among the entries of c that c1 no longer holds,
\* -1 when every key of c is still stored
EvictedAt(c, c1) ==
  LET gone == KeysOf(c) \ KeysOf(c1)
  IN IF gone = {} THEN -1
     ELSE CHOOSE t \in {insertedAt[k] : k \in gone} :
            \A k \in gone : insertedAt[k] <= t

\* ---- operations ----
\* cacheTranslation / LRUCache.set of a successful result.  In "map" the
\* call ends with saveCache() when 30 minutes have passed since the last save.
CachePut(k, save) ==
  /\ cimpl \in {"map", "lru", "obj"}
  /\ save => cimpl = "map"
  /\ cimpl = "obj" => cacheInitialized
  /\ translationCache' =
       CASE cimpl = "map" -> MapPut(translationCache, k, now)
         [] cimpl = "lru" -> LruSet(translationCache, k, now)
         [] cimpl = "obj" -> ObjPut(translationCache, k, now)
  /\ cacheSnapshot' = IF save THEN translationCache' ELSE cacheSnapshot
  /\ lastOp' = [kind |-> "put", key |-> k, hit |-> FALSE,
                evictedAt |-> EvictedAt(translationCache, translationCache')]
  /\ insertedAt' = Inserted(translationCache', k, now)
  /\ UNCHANGED <<cimpl, cacheInitialized, now>>
  /\ UNCHANGED nonCacheVars

\* getCachedTranslation / LRUCache.get
CacheGet(k) ==
  /\ cimpl \in {"map", "lru", "obj"}
  /\ LET r == CASE cimpl = "map" -> MapGet(translationCache, k, now)
                [] cimpl = "lru" -> LruGet(translationCache, k, now)
                [] cimpl = "obj" ->
                     IF cacheInitialized THEN ObjGet(translationCache, k, now)
                     ELSE [cache |-> translationCache, entry |-> NoEntry]
     IN /\ translationCache' = r.cache
        /\ lastOp' = [kind |-> "get", key |-> k, hit |-> (r.entry # NoEntry),
                      evictedAt |-> -1]
        /\ insertedAt' = Inserted(r.cache, "", now)
  /\ UNCHANGED <<cimpl, cacheSnapshot, cacheInitialized, now>>
  /\ UNCHANGED nonCacheVars

\* clearCache / LRUCache.clear
CacheClear ==
  /\ cimpl \in {"map", "lru", "obj"}
  /\ translationCache' = <<>>
  /\ cacheSnapshot' = IF cimpl = "lru" THEN cacheSnapshot ELSE <<>>
  /\ lastOp' = NoOp
  /\ insertedAt' = [k \in Keys |-> -1]
  /\ UNCHANGED <<cimpl, cacheInitialized, now>>
  /\ UNCHANGED nonCacheVars

\* saveCache(force) / periodic save / LRUCache.saveToLocalStorage
SaveCache ==
  /\ cimpl \in {"map", "lru", "obj"}
  /\ Len(translationCache) > 0
  /\ cacheSnapshot' =
       IF cimpl = "obj" THEN ObjLive(translationCache, now) ELSE translationCache
  /\ lastOp' = NoOp
  /\ UNCHANGED <<cimpl, translationCache, cacheInitialized, now, insertedAt>>
  /\ UNCHANGED nonCacheVars

\* initialize / loadCache / LRUCache.loadFromLocalStorage -> fromObject
LoadCache ==
  /\ cimpl \in {"map", "lru", "obj"}
  /\ translationCache' =
       CASE cimpl = "map" -> MapLoad(translationCache, cacheSnapshot, now)
         [] cimpl = "lru" -> cacheSnapshot
         [] cimpl = "obj" -> ObjLive(cacheSnapshot, now)
  /\ cacheInitialized' = TRUE
  /\ lastOp' = NoOp
  /\ insertedAt' = Inserted(translationCache', "", now)
  /\ UNCHANGED <<cimpl, cacheSnapshot, now>>
  /\ UNCHANGED nonCacheVars

\* time passes
Tick(last) ==
  /\ cimpl \in {"map", "lru", "obj"}
  /\ now < last
  /\ now' = now + 1
  /\ lastOp' = NoOp
  /\ UNCHANGED <<cimpl, translationCache, cacheSnapshot, cacheInitialized, insertedAt>>
  /\ UNCHANGED nonCacheVars

\* the state after initializeCache found no stored snapshot
InitCache ==
  /\ cimpl \in {"map", "lru", "obj"}
  /\ translationCache = <<>>
  /\ cacheSnapshot = <<>>
  /\ cacheInitialized = TRUE
  /\ now = 0
  /\ lastOp = NoOp
  /\ insertedAt = [k \in Keys |-> -1]
  /\ QueueIdle
  /\ ContentIdle
  /\ ObserverIdle
  /\ ReconnectIdle
  /\ EngineIdle
  /\ CallIdle

\* the in-memory operations
NextCache ==
  \/ \E k \in Keys : CachePut(k, FALSE)
  \/ \E k \in Keys : CacheGet(k)
  \/ CacheClear
  \/ Tick(MaxTime)

SpecCache == InitCache /\ [][NextCache]_vars

\* the module before loadCache has run ("obj": cacheInitialized is false)
InitCacheStore ==
  /\ cimpl \in {"map", "lru", "obj"}
  /\ translationCache = <<>>
  /\ cacheSnapshot = <<>>
  /\ cacheInitialized = (cimpl # "obj")
  /\ now = 0
  /\ lastOp = NoOp
  /\ insertedAt = [k \in Keys |-> -1]
  /\ QueueIdle
  /\ ContentIdle
  /\ ObserverIdle
  /\ ReconnectIdle
  /\ EngineIdle
  /\ CallIdle

\* the in-memory operations together with the snapshot in durable storage
NextCacheStore ==
  \/ \E k \in Keys, save \in BOOLEAN : CachePut(k, save)
  \/ \E k \in Keys : CacheGet(k)
  \/ CacheClear
  \/ SaveCache
  \/ LoadCache
  \/ Tick(MaxStoreTime)

SpecCacheStore == InitCacheStore /\ [][NextCacheStore]_vars

\* mutant: the result is stored whether or not it is a success
StoresResult_Always(success) == TRUE

\* translateText: `translationResult && translationResult.success`, and the
\* same test at the head of cacheTranslation
StoresResult(success) == success

\* translateText whose external call fails: getCachedTranslation misses
\* (removing the entry under the key when it has expired), the external
\* operation returns a failure, and the result goes through the test on
\* success before cacheTranslation stores anything
TranslateFails(k) ==
  /\ cimpl \in {"map", "lru", "obj"}
  /\ LET r == CASE cimpl = "map" -> MapGet(translationCache, k, now)
                [] cimpl = "lru" -> LruGet(translationCache, k, now)
                [] cimpl = "obj" ->
                     IF cacheInitialized THEN ObjGet(translationCache, k, now)
                     ELSE [cache |-> translationCache, entry |-> NoEntry]
     IN /\ r.entry = NoEntry
        /\ translationCache' =
             IF StoresResult(FALSE) /\ (cimpl = "obj" => cacheInitialized)
               THEN CASE cimpl = "map" -> MapPut(r.cache, k, now)
                      [] cimpl = "lru" -> LruSet(r.cache, k, now)
                      [] cimpl = "obj" -> ObjPut(r.cache, k, now)
               ELSE r.cache
  /\ lastOp' = [kind |-> "fail", key |-> k, hit |-> FALSE, evictedAt |-> -1]
  /\ insertedAt' = Inserted(translationCache', "", now)
  /\ UNCHANGED <<cimpl, cacheSnapshot, cacheInitialized, now>>
  /\ UNCHANGED nonCacheVars

NextTranslate ==
  \/ \E k \in Keys : CachePut(k, FALSE)
  \/ \E k \in Keys : CacheGet(k)
  \/ \E k \in Keys : TranslateFails(k)
  \/ Tick(MaxTime)

SpecTranslate == InitCache /\ [][NextTranslate]_vars

\* puts and saves over a span of time longer than the maximum age
NextCacheSave ==
  \/ \E k \in Keys, save \in BOOLEAN : CachePut(k, save)
  \/ SaveCache
  \/ Tick(MaxTime)

SpecCacheSave == InitCache /\ [][NextCacheSave]_vars

(***************************************************************************)
(* C6: after any sequence of put, get, clear and rehydrate operations the  *)
(* cache never holds more entries than the configured maximum size.        *)
(***************************************************************************)
C6_SizeBounded == Len(translationCache) <= MAX_CACHE_SIZE

(***************************************************************************)
(* C7: whenever a put evicts, every entry removed was accessed no later    *)
(* than every entry that stays (a get hit counts as an access), and among  *)
(* entries with equal access time the one earlier in the store's insertion *)
(* order goes first.                                                       *)
(***************************************************************************)
OlderThan(c, i, j) ==
  \/ c[i].lastAccessed < c[j].lastAccessed
  \/ c[i].lastAccessed = c[j].lastAccessed /\ i < j

PutStep == lastOp'.kind = "put"

EvictsLeastRecent ==
  \A i, j \in 1..Len(translationCache) :
    ( /\ translationCache[i].key \notin KeysOf(translationCache')
      /\ translationCache[j].key \in KeysOf(translationCache')
      /\ translationCache[j].key # lastOp'.key )
    => OlderThan(translationCache, i, j)

C7_EvictsLeastRecentlyUsed == [][PutStep => EvictsLeastRecent]_vars

\* a put has just evicted an entry that was inserted later than an entry
\* it kept: the kept one had been read in between (put A, put B, get A,
\* put C evicts B)
C7_Witness ==
  /\ lastOp.kind = "put"
  /\ \E i \in 1..Len(translationCache) :
       /\ translationCache[i].key # lastOp.key
       /\ insertedAt[translationCache[i].key] < lastOp.evictedAt
       /\ insertedAt[translationCache[i].key] < translationCache[i].lastAccessed

(***************************************************************************)
(* C8: get never returns an entry whose expiry time has passed: an entry   *)
(* inserted at time t is not returned by any get after t + TTL, whatever   *)
(* gets were made on it before.                                            *)
(***************************************************************************)
C8_NoExpiredHit ==
  (cimpl \in {"map", "obj"} /\ lastOp.kind = "get" /\ lastOp.hit)
    => now <= insertedAt[lastOp.key] + MaxCacheAge

(***************************************************************************)
(* Content script: channel changes, the grace period, the staggered        *)
(* release of feed nodes and processChatMessage.                           *)
(*   chimpl = "content"   handleChannelChange of content.js                *)
(*   chimpl = "observer"  handleChannelChange of the observer module       *)
(* Timers are records [kind, at]; a debounced function owns one timer that *)
(* every call replaces, a plain setTimeout adds one.                       *)
(* Node tag: "none" (no property), "new" (_isNewMessage), "existing"       *)
(* (_isExistingMessage).  The settings carry an API key (apiKeySet).       *)
(***************************************************************************)
GRACE_PERIOD_DURATION == 5000
NOTIFY_DEBOUNCE == 1000
REINIT_DELAY == 1500
REINIT_DEBOUNCE == 500
START_DEBOUNCE == 300
FIND_DELAY == 2000
CONTEXT_DEBOUNCE == 1000
RETRY_DELAY == 1000
CHECK_RETRY_DELAY == 3000

\* settings.requestDelay values explored
RequestDelays == {1000}
\* positions of the observed node within its batch of added nodes
BatchIndexes == {0, 7}
Debounce(ts, k, d) == {t \in ts : t.kind # k} \cup {[kind |-> k, at |-> clock + d]}

SetTimeout(ts, k, d) == ts \cup {[kind |-> k, at |-> clock + d]}

Due(t) == t.at = clock

ZeroIds == [m \in Ids |-> 0]

\* index of an existing message in getAllExistingMessages()
Pos(m) == 0

\* ---- stopObserving (content.js) ----
\* clearTimeout(gracePeriodTimer): only the timer content.js keeps a handle of
StopTimers(ts) == {t \in ts : t.kind # "grace"}

StopChannelChanged == IF ~onChannelPage THEN FALSE ELSE channelChanged

\* ---- processChatMessage ----
Historical(tag) == tag # "new"

\* processChatMessage without its check of existing messages
Passes_NoHistoricalFilter(m, tag) ==
  /\ isEnabled
  /\ ~inGracePeriod
  /\ m \notin translatedComments

\* every early return of processChatMessage before sendTranslationRequest
Passes(m, tag) ==
  /\ isEnabled
  /\ Historical(tag) =>
       (processExistingMessages /\ ~channelChanged /\ ~preventExisting)
  /\ ~inGracePeriod
  /\ m \notin translatedComments

\* the tag the release callback leaves on the node
ReleaseTag(r) ==
  CASE r.mode = "grace" -> "existing"
    [] r.mode = "new" -> "new"
    [] OTHER -> nodeTag[r.id]

\* observer.disconnect() on the observer the script holds, if any
Disconnect(n, obs) == IF obs # "null" THEN n - 1 ELSE n

\* mutant: observeChatMessages without the disconnect of the previous observer
Attach_NoDisconnect(n, obs) == n + 1

\* observeChatMessages: disconnects the observer it holds, then connects a new one
Attach(n, obs) == Disconnect(n, obs) + 1

\* ---- handlers ----
\* urlChangeDetector callback
UrlChange(ch) ==
  /\ chimpl \in {"content", "observer"}
  /\ navs < MaxNavs
  /\ navs' = navs + 1
  /\ onChannelPage' = ch
  /\ dom' = {}
  /\ IF ch
       THEN /\ channelChanged' = TRUE
            /\ preventExisting' = TRUE
            /\ timers' = Debounce(timers, "notify", NOTIFY_DEBOUNCE)
            /\ graceDeadline' = graceDeadline
            /\ UNCHANGED <<attached, observer, translatedComments, inGracePeriod>>
       ELSE /\ observer' = "null"
            /\ attached' = Disconnect(attached, observer)
            /\ translatedComments' = {}
            /\ timers' = StopTimers(timers)
            /\ inGracePeriod' = FALSE
            /\ channelChanged' = FALSE
            /\ graceDeadline' = -1
            /\ UNCHANGED preventExisting
  /\ submitted' = ZeroIds
  /\ lastEvent' = NoEvent
  /\ UNCHANGED <<chimpl, clock, isEnabled, processExistingMessages, requestDelay,
                 releases, nodeTag, inflight, generation, muts, toggles>>
  /\ visibleAtGraceEnd' = {}
  /\ UNCHANGED <<halted, invalidations>>
  /\ UNCHANGED sentGen
  /\ UNCHANGED nonContentVars

\* debouncedChannelChangeNotify fires: handleChannelChange
HandleChannelChange ==
  /\ chimpl \in {"content", "observer"}
  /\ \E t \in timers :
       /\ t.kind = "notify" /\ Due(t)
       /\ IF chimpl = "content"
            THEN /\ timers' = SetTimeout(
                                SetTimeout(StopTimers(timers \ {t}), "grace",
                                           GRACE_PERIOD_DURATION),
                                "reinit", REINIT_DELAY + REINIT_DEBOUNCE)
                 /\ channelChanged' = TRUE
                 /\ preventExisting' = TRUE
            ELSE /\ timers' = SetTimeout(timers \ {t}, "graceAnon",
                                         GRACE_PERIOD_DURATION)
                 /\ UNCHANGED <<channelChanged, preventExisting>>
  /\ observer' = "null"
  /\ attached' = Disconnect(attached, observer)
  /\ translatedComments' = IF observer # "null" THEN {} ELSE translatedComments
  /\ inGracePeriod' = TRUE
  /\ generation' = generation + 1
  /\ graceDeadline' = clock + GRACE_PERIOD_DURATION
  /\ submitted' = ZeroIds
  /\ lastEvent' = NoEvent
  /\ UNCHANGED <<chimpl, clock, onChannelPage, isEnabled, processExistingMessages,
                 requestDelay, releases, dom, nodeTag, inflight, navs, muts, toggles>>
  /\ UNCHANGED visibleAtGraceEnd
  /\ UNCHANGED <<halted, invalidations>>
  /\ UNCHANGED sentGen
  /\ UNCHANGED nonContentVars

\* the grace timer fires
GraceTimer ==
  /\ chimpl \in {"content", "observer"}
  /\ \E t \in timers :
       /\ t.kind \in {"grace", "graceAnon"} /\ Due(t)
       /\ timers' = timers \ {t}
  /\ inGracePeriod' = FALSE
  /\ IF chimpl = "content"
       THEN \* markExistingMessages(true) when an observer exists
            /\ nodeTag' = [m \in Ids |->
                             IF observer # "null" /\ m \in dom THEN "existing"
                             ELSE nodeTag[m]]
            /\ UNCHANGED <<observer, attached>>
       ELSE \* startObservingFunc()
            /\ observer' = IF observer = "null" /\ onChannelPage THEN "live"
                           ELSE observer
            /\ attached' = IF observer = "null" /\ onChannelPage
                             THEN Attach(attached, observer)
                             ELSE attached
            /\ UNCHANGED nodeTag
  /\ lastEvent' = GraceEnded
  /\ visibleAtGraceEnd' = dom
  /\ UNCHANGED <<chimpl, clock, onChannelPage, isEnabled, channelChanged,
                 preventExisting, processExistingMessages, requestDelay, releases,
                 dom, translatedComments, inflight, generation, graceDeadline,
                 submitted, navs, muts, toggles>>
  /\ UNCHANGED <<halted, invalidations>>
  /\ UNCHANGED sentGen
  /\ UNCHANGED nonContentVars

\* debouncedReinitialize, called by the 1500 ms timeout of handleChannelChange.
\* Two handleChannelChange calls are at least NOTIFY_DEBOUNCE apart, more than
\* REINIT_DEBOUNCE, so the debounce never merges two calls and each runs
\* REINIT_DELAY + REINIT_DEBOUNCE after its handleChannelChange.
Reinitialize ==
  /\ chimpl \in {"content", "observer"}
  /\ \E t \in timers :
       /\ t.kind = "reinit" /\ Due(t)
       /\ IF ~onChannelPage
            THEN \* stopObserving()
                 /\ timers' = StopTimers(timers \ {t})
                 /\ observer' = "null"
                 /\ attached' = Disconnect(attached, observer)
                 /\ inGracePeriod' = FALSE
                 /\ channelChanged' = FALSE
                 /\ UNCHANGED preventExisting
            ELSE /\ timers' = IF isEnabled
                                THEN Debounce(timers \ {t}, "startObserving",
                                              START_DEBOUNCE)
                                ELSE timers \ {t}
                 /\ preventExisting' = TRUE
                 /\ UNCHANGED <<attached, observer, inGracePeriod, channelChanged>>
  /\ translatedComments' = {}
  /\ lastEvent' = NoEvent
  /\ UNCHANGED <<chimpl, clock, onChannelPage, isEnabled, processExistingMessages,
                 requestDelay, releases, dom, nodeTag, inflight, generation,
                 graceDeadline, submitted, navs, muts, toggles>>
  /\ UNCHANGED visibleAtGraceEnd
  /\ UNCHANGED <<halted, invalidations>>
  /\ UNCHANGED sentGen
  /\ UNCHANGED nonContentVars

\* debouncedStartObserving
StartObserving ==
  /\ chimpl \in {"content", "observer"}
  /\ \E t \in timers :
       /\ t.kind = "startObserving" /\ Due(t)
       /\ timers' = IF observer # "null" THEN timers \ {t}
                    ELSE SetTimeout(timers \ {t}, "find", FIND_DELAY)
  /\ lastEvent' = NoEvent
  /\ UNCHANGED <<chimpl, clock, onChannelPage, isEnabled, observer, inGracePeriod,
                 channelChanged, preventExisting, processExistingMessages,
                 requestDelay, releases, dom, nodeTag, translatedComments, inflight,
                 generation, graceDeadline, submitted, navs, muts, toggles>>
  /\ UNCHANGED visibleAtGraceEnd
  /\ UNCHANGED <<halted, invalidations>>
  /\ UNCHANGED sentGen
  /\ UNCHANGED attached
  /\ UNCHANGED nonContentVars

\* findAndObserveChatContainer -> observeChatMessages
ObserveChatMessages ==
  /\ chimpl \in {"content", "observer"}
  /\ \E t \in timers :
       /\ t.kind = "find" /\ Due(t)
       /\ timers' = timers \ {t}
  /\ IF ~onChannelPage
       THEN UNCHANGED <<attached, observer, channelChanged, releases>>
       ELSE /\ observer' = IF inGracePeriod THEN "grace" ELSE "live"
            /\ attached' = Attach(attached, observer)
            /\ channelChanged' = FALSE
            /\ releases' =
                 IF processExistingMessages /\ ~channelChanged /\ ~preventExisting
                   THEN releases \cup
                          {[id |-> m, at |-> clock + Pos(m) * requestDelay,
                            mode |-> "asis", gen |-> generation] : m \in dom}
                   ELSE releases
  /\ lastEvent' = NoEvent
  /\ UNCHANGED <<chimpl, clock, onChannelPage, isEnabled, inGracePeriod,
                 preventExisting, processExistingMessages, requestDelay, dom,
                 nodeTag, translatedComments, inflight, generation, graceDeadline,
                 submitted, navs, muts, toggles>>
  /\ UNCHANGED visibleAtGraceEnd
  /\ UNCHANGED <<halted, invalidations>>
  /\ UNCHANGED sentGen
  /\ UNCHANGED nonContentVars

\* the page adds node m at position idx of a batch; the MutationObserver
\* callback, when one is connected, schedules its release
Mutation(m, idx) ==
  /\ chimpl \in {"content", "observer"}
  /\ onChannelPage
  /\ muts < MaxMuts
  /\ muts' = muts + 1
  /\ dom' = dom \cup {m}
  /\ releases' =
       IF observer = "null" THEN releases
       ELSE releases \cup
              {[id |-> m, at |-> clock + idx * requestDelay,
                mode |-> IF observer = "grace" THEN "grace" ELSE "new",
                gen |-> generation]}
  /\ lastEvent' = NoEvent
  /\ UNCHANGED <<chimpl, clock, onChannelPage, isEnabled, observer, inGracePeriod,
                 channelChanged, preventExisting, processExistingMessages,
                 requestDelay, timers, nodeTag, translatedComments, inflight,
                 generation, graceDeadline, submitted, navs, toggles>>
  /\ UNCHANGED visibleAtGraceEnd
  /\ UNCHANGED <<halted, invalidations>>
  /\ UNCHANGED sentGen
  /\ UNCHANGED attached
  /\ UNCHANGED nonContentVars

\* a release timeout fires: the node is tagged and processChatMessage runs up
\* to sendTranslationRequest
Release ==
  /\ chimpl \in {"content", "observer"}
  /\ \E r \in releases :
       /\ Due(r)
       /\ releases' = releases \ {r}
       /\ nodeTag' = [nodeTag EXCEPT ![r.id] = ReleaseTag(r)]
       /\ IF Passes(r.id, ReleaseTag(r))
            THEN /\ inflight' = [inflight EXCEPT ![r.id] = @ + 1]
                 /\ submitted' = [submitted EXCEPT ![r.id] = @ + 1]
                 /\ lastEvent' = [kind |-> "submit", id |-> r.id, gen |-> r.gen]
                 /\ sentGen' = [sentGen EXCEPT ![r.id] = generation]
            ELSE /\ lastEvent' = NoEvent
                 /\ UNCHANGED <<inflight, submitted, sentGen>>
  /\ UNCHANGED <<chimpl, clock, onChannelPage, isEnabled, observer, inGracePeriod,
                 channelChanged, preventExisting, processExistingMessages,
                 requestDelay, timers, dom, translatedComments, generation,
                 graceDeadline, navs, muts, toggles>>
  /\ UNCHANGED visibleAtGraceEnd
  /\ UNCHANGED <<halted, invalidations>>
  /\ UNCHANGED attached
  /\ UNCHANGED nonContentVars

\* the translate response arrives: processChatMessage resumes after its await
Response(m, success) ==
  /\ chimpl \in {"content", "observer"}
  /\ inflight[m] > 0
  /\ inflight' = [inflight EXCEPT ![m] = @ - 1]
  /\ translatedComments' = IF success THEN translatedComments \cup {m}
                           ELSE translatedComments
  /\ sentGen' = IF inflight[m] = 1 THEN [sentGen EXCEPT ![m] = -1] ELSE sentGen
  /\ lastEvent' = NoEvent
  /\ UNCHANGED <<chimpl, clock, onChannelPage, isEnabled, observer, inGracePeriod,
                 channelChanged, preventExisting, processExistingMessages,
                 requestDelay, timers, releases, dom, nodeTag, generation,
                 graceDeadline, submitted, navs, muts, toggles>>
  /\ UNCHANGED visibleAtGraceEnd
  /\ UNCHANGED <<halted, invalidations>>
  /\ UNCHANGED attached
  /\ UNCHANGED nonContentVars

\* runtime message toggleTranslation
ToggleTranslation(enabled) ==
  /\ chimpl \in {"content", "observer"}
  /\ enabled # isEnabled
  /\ toggles < MaxToggles
  /\ toggles' = toggles + 1
  /\ isEnabled' = enabled
  /\ IF enabled
       THEN /\ timers' = Debounce(timers, "startObserving", START_DEBOUNCE)
            /\ UNCHANGED <<attached, observer, translatedComments, inGracePeriod,
                           channelChanged>>
       ELSE \* stopObserving()
            /\ timers' = StopTimers(timers)
            /\ observer' = "null"
            /\ attached' = Disconnect(attached, observer)
            /\ translatedComments' = {}
            /\ inGracePeriod' = FALSE
            /\ channelChanged' = StopChannelChanged
  /\ lastEvent' = NoEvent
  /\ UNCHANGED <<chimpl, clock, onChannelPage, preventExisting,
                 processExistingMessages, requestDelay, releases, dom, nodeTag,
                 inflight, generation, graceDeadline, submitted, navs, muts>>
  /\ UNCHANGED visibleAtGraceEnd
  /\ UNCHANGED <<halted, invalidations>>
  /\ UNCHANGED sentGen
  /\ UNCHANGED nonContentVars

\* time passes until the next timer is due; the external events (URL
\* changes, mutations, responses, toggles) happen at these instants
Advance ==
  /\ chimpl \in {"content", "observer"}
  /\ \E t \in {x.at : x \in timers \cup releases} :
       /\ t > clock
       /\ t <= MaxClock
       /\ \A x \in timers \cup releases : x.at >= t
       /\ clock' = t
  /\ lastEvent' = NoEvent
  /\ UNCHANGED <<chimpl, onChannelPage, isEnabled, observer, inGracePeriod,
                 channelChanged, preventExisting, processExistingMessages,
                 requestDelay, timers, releases, dom, nodeTag, translatedComments,
                 inflight, generation, graceDeadline, submitted, navs, muts, toggles>>
  /\ UNCHANGED visibleAtGraceEnd
  /\ UNCHANGED <<halted, invalidations>>
  /\ UNCHANGED sentGen
  /\ UNCHANGED attached
  /\ UNCHANGED nonContentVars

\* sendTranslationRequest fails with "Extension context invalidated": it
\* calls handleContextInvalidated (debounced) and processChatMessage, resumed
\* with the error, calls stopObserving()
ResponseInvalidated(m) ==
  /\ chimpl \in {"content", "observer"}
  /\ inflight[m] > 0
  /\ invalidations < MaxInvalidations
  /\ invalidations' = invalidations + 1
  /\ inflight' = [inflight EXCEPT ![m] = @ - 1]
  /\ timers' = Debounce(StopTimers(timers), "contextInvalidated", CONTEXT_DEBOUNCE)
  /\ observer' = "null"
  /\ attached' = Disconnect(attached, observer)
  /\ translatedComments' = {}
  /\ inGracePeriod' = FALSE
  /\ channelChanged' = StopChannelChanged
  /\ halted' = TRUE
  /\ lastEvent' = NoEvent
  /\ UNCHANGED <<chimpl, clock, onChannelPage, isEnabled, preventExisting,
                 processExistingMessages, requestDelay, releases, dom, nodeTag,
                 generation, graceDeadline, submitted, navs, muts, toggles,
                 visibleAtGraceEnd>>
  /\ sentGen' = IF inflight[m] = 1 THEN [sentGen EXCEPT ![m] = -1] ELSE sentGen
  /\ UNCHANGED nonContentVars

\* debouncedHandleContextInvalidated: the first detection is never "recent";
\* the retry counter of the session is 1
HandleContextInvalidated ==
  /\ chimpl \in {"content", "observer"}
  /\ \E t \in timers :
       /\ t.kind = "contextInvalidated" /\ Due(t)
       /\ timers' = SetTimeout(timers \ {t}, "reconnect", RETRY_DELAY)
  /\ observer' = "null"
  /\ attached' = Disconnect(attached, observer)
  /\ lastEvent' = NoEvent
  /\ UNCHANGED <<chimpl, clock, onChannelPage, isEnabled, inGracePeriod,
                 channelChanged, preventExisting, processExistingMessages,
                 requestDelay, releases, dom, nodeTag, translatedComments, inflight,
                 generation, graceDeadline, submitted, navs, muts, toggles,
                 visibleAtGraceEnd, halted, invalidations>>
  /\ UNCHANGED sentGen
  /\ UNCHANGED nonContentVars

\* the delayed re-initialisation: the stored settings are applied and, when
\* the URL is still the same, initialize() runs; either calls
\* debouncedStartObserving when translation is enabled.  restart is false
\* when no settings are stored and the URL has changed.
Reconnect(restart) ==
  /\ chimpl \in {"content", "observer"}
  /\ restart => isEnabled
  /\ \E t \in timers :
       /\ t.kind = "reconnect" /\ Due(t)
       /\ timers' = IF restart /\ onChannelPage
                      THEN Debounce(timers \ {t}, "startObserving", START_DEBOUNCE)
                      ELSE timers \ {t}
  /\ halted' = FALSE
  /\ lastEvent' = NoEvent
  /\ UNCHANGED <<chimpl, clock, onChannelPage, isEnabled, observer, inGracePeriod,
                 channelChanged, preventExisting, processExistingMessages,
                 requestDelay, releases, dom, nodeTag, translatedComments, inflight,
                 generation, graceDeadline, submitted, navs, muts, toggles,
                 visibleAtGraceEnd, invalidations>>
  /\ UNCHANGED sentGen
  /\ UNCHANGED attached
  /\ UNCHANGED nonContentVars

\* initialize() on a channel page with translation enabled: it ends by
\* calling debouncedStartObserving
InitContent ==
  /\ chimpl \in {"content", "observer"}
  /\ clock = 0
  /\ onChannelPage = TRUE
  /\ isEnabled = TRUE
  /\ observer = "null"
  /\ inGracePeriod = FALSE
  /\ channelChanged = FALSE
  /\ preventExisting = FALSE
  /\ processExistingMessages \in BOOLEAN
  /\ requestDelay \in RequestDelays
  /\ timers = {[kind |-> "startObserving", at |-> START_DEBOUNCE]}
  /\ releases = {}
  /\ dom = {}
  /\ nodeTag = [m \in Ids |-> "none"]
  /\ translatedComments = {}
  /\ inflight = [m \in Ids |-> 0]
  /\ generation = 0
  /\ graceDeadline = -1
  /\ submitted = [m \in Ids |-> 0]
  /\ lastEvent = NoEvent
  /\ navs = 0
  /\ muts = 0
  /\ toggles = 0
  /\ visibleAtGraceEnd = {}
  /\ halted = FALSE
  /\ invalidations = 0
  /\ sentGen = [m \in Ids |-> -1]
  /\ attached = IF observer = "null" THEN 0 ELSE 1
  /\ QueueIdle
  /\ CacheIdle
  /\ ObserverIdle
  /\ ReconnectIdle
  /\ EngineIdle
  /\ CallIdle

NextContent ==
  \/ \E ch \in BOOLEAN : UrlChange(ch)
  \/ HandleChannelChange
  \/ GraceTimer
  \/ Reinitialize
  \/ StartObserving
  \/ ObserveChatMessages
  \/ \E m \in Ids, idx \in BatchIndexes : Mutation(m, idx)
  \/ Release
  \/ \E m \in Ids, success \in BOOLEAN : Response(m, success)
  \/ \E enabled \in BOOLEAN : ToggleTranslation(enabled)
  \/ \E m \in Ids : ResponseInvalidated(m)
  \/ HandleContextInvalidated
  \/ \E restart \in BOOLEAN : Reconnect(restart)
  \/ Advance

SpecContent == InitContent /\ [][NextContent]_vars

(***************************************************************************)
(* The page is reloaded in the same tab.  The content script is loaded     *)
(* again: its module-level state (observer, gracePeriodTimer, every pending*)
(* timeout, translatedComments) starts afresh and the chat feed is a new   *)
(* document, while the sessionStorage flags twitch_gemini_in_grace_period, *)
(* twitch_gemini_channel_changed and twitch_gemini_prevent_existing keep   *)
(* their values.  initialize() then calls debouncedStartObserving() when   *)
(* the extension is enabled on a channel page; it removes only             *)
(* twitch_gemini_context_invalidated.                                      *)
(***************************************************************************)
PageReload ==
  /\ chimpl = "content"
  /\ navs < MaxNavs
  /\ navs' = navs + 1
  /\ observer' = "null"
  /\ attached' = 0
  /\ translatedComments' = {}
  /\ timers' = IF isEnabled /\ onChannelPage
                 THEN {[kind |-> "startObserving", at |-> clock + START_DEBOUNCE]}
                 ELSE {}
  /\ releases' = {}
  /\ dom' = {}
  /\ nodeTag' = [m \in Ids |-> "none"]
  /\ inflight' = [m \in Ids |-> 0]
  /\ sentGen' = [m \in Ids |-> -1]
  /\ graceDeadline' = -1
  /\ submitted' = ZeroIds
  /\ lastEvent' = NoEvent
  /\ visibleAtGraceEnd' = {}
  /\ halted' = FALSE
  /\ UNCHANGED <<chimpl, clock, onChannelPage, isEnabled, inGracePeriod,
                 channelChanged, preventExisting, processExistingMessages,
                 requestDelay, generation, muts, toggles, invalidations>>
  /\ UNCHANGED nonContentVars

\* checkExtensionContext, catch branch: the periodic context check throws.
\* stopObserving() runs and the re-initialisation is scheduled; with at most
\* MaxInvalidations + 1 <= 3 retries counted the delay is CHECK_RETRY_DELAY.
ContextCheckFails ==
  /\ chimpl = "content"
  /\ invalidations < MaxInvalidations
  /\ invalidations' = invalidations + 1
  /\ observer' = "null"
  /\ attached' = Disconnect(attached, observer)
  /\ translatedComments' = {}
  /\ timers' = SetTimeout(StopTimers(timers), "retryInit", CHECK_RETRY_DELAY)
  /\ inGracePeriod' = FALSE
  /\ channelChanged' = StopChannelChanged
  /\ lastEvent' = NoEvent
  /\ UNCHANGED <<chimpl, clock, onChannelPage, isEnabled, preventExisting,
                 processExistingMessages, requestDelay, releases, dom, nodeTag,
                 inflight, generation, graceDeadline, submitted, navs, muts,
                 toggles, visibleAtGraceEnd, halted, sentGen>>
  /\ UNCHANGED nonContentVars

\* the timeout set by the catch branch of checkExtensionContext: the stored
\* settings are read back and debouncedStartObserving() is called when the
\* extension is enabled, then initialize() calls it again
ContextRetryInit ==
  /\ chimpl = "content"
  /\ \E t \in timers :
       /\ t.kind = "retryInit" /\ Due(t)
       /\ timers' = IF isEnabled
                      THEN Debounce(timers \ {t}, "startObserving", START_DEBOUNCE)
                      ELSE timers \ {t}
  /\ lastEvent' = NoEvent
  /\ UNCHANGED <<chimpl, clock, onChannelPage, isEnabled, observer, inGracePeriod,
                 channelChanged, preventExisting, processExistingMessages,
                 requestDelay, releases, dom, nodeTag, translatedComments, inflight,
                 generation, graceDeadline, submitted, navs, muts, toggles,
                 visibleAtGraceEnd, halted, invalidations, sentGen, attached>>
  /\ UNCHANGED nonContentVars

InitReload == InitContent /\ chimpl = "content"

NextReload ==
  \/ \E ch \in BOOLEAN : UrlChange(ch)
  \/ HandleChannelChange
  \/ GraceTimer
  \/ Reinitialize
  \/ StartObserving
  \/ ObserveChatMessages
  \/ \E m \in Ids, idx \in BatchIndexes : Mutation(m, idx)
  \/ Release
  \/ \E m \in Ids, success \in BOOLEAN : Response(m, success)
  \/ PageReload
  \/ Advance

SpecReload == InitReload /\ [][NextReload]_vars

(***************************************************************************)
(* processChatMessage on its own: one feed node whose release is due, in   *)
(* every combination of the settings, the session flags, the node's tags   *)
(* and translatedComments that the content script can be in.               *)
(* setChannelChangedFlag sets twitch_gemini_prevent_existing together with *)
(* the channel-changed flag and nothing removes it; the grace period is    *)
(* started by handleChannelChange only, after that call.                   *)
(***************************************************************************)
InitProcess ==
  /\ chimpl = "content"
  /\ clock = 0
  /\ onChannelPage = TRUE
  /\ isEnabled \in BOOLEAN
  /\ observer \in {"live", "grace"}
  /\ inGracePeriod \in BOOLEAN
  /\ channelChanged \in BOOLEAN
  /\ preventExisting \in BOOLEAN
  /\ (channelChanged \/ inGracePeriod) => preventExisting
  /\ processExistingMessages \in BOOLEAN
  /\ requestDelay \in RequestDelays
  /\ timers = {}
  /\ \E mode \in {"asis", "new", "grace"} :
       /\ mode = "grace" => observer = "grace"
       /\ mode = "new" => observer = "live"
       /\ releases = {[id |-> m, at |-> 0, mode |-> mode, gen |-> 0] : m \in Ids}
  /\ dom = Ids
  /\ nodeTag \in [Ids -> {"none", "new", "existing"}]
  /\ translatedComments \in SUBSET Ids
  /\ inflight = [m \in Ids |-> 0]
  /\ generation = 0
  /\ graceDeadline = IF inGracePeriod THEN GRACE_PERIOD_DURATION ELSE -1
  /\ submitted = [m \in Ids |-> 0]
  /\ lastEvent = NoEvent
  /\ navs = 0
  /\ muts = 0
  /\ toggles = 0
  /\ visibleAtGraceEnd = {}
  /\ halted = FALSE
  /\ invalidations = 0
  /\ sentGen = [m \in Ids |-> -1]
  /\ attached = IF observer = "null" THEN 0 ELSE 1
  /\ QueueIdle
  /\ CacheIdle
  /\ ObserverIdle
  /\ ReconnectIdle
  /\ EngineIdle
  /\ CallIdle

NextProcess ==
  \/ Release
  \/ \E m \in Ids, success \in BOOLEAN : Response(m, success)

SpecProcess == InitProcess /\ [][NextProcess]_vars

(***************************************************************************)
(* createMutationObserver on its own: each callback receives a batch of    *)
(* added nodes and schedules node `index` with                             *)
(* setTimeout(..., index * requestDelay); a fired timeout hands its node   *)
(* to nodeProcessor.  A node is <<batch, index>>, index from 0.            *)
(* Order of timeouts: a timeout does not run before one that was set       *)
(* earlier with an equal or smaller delay; otherwise timeouts that are due *)
(* at the same instant run in either order.                                *)
(***************************************************************************)
\* settings.requestDelay values the observer is created with
ObserverDelays == {0, 100}
\* one clock tick, ms
ObsTick == 50
\* delay of the node at position index of a batch, in the reverse order
ReleaseDelay_Reversed(index, len, d) == (len - 1 - index) * d

ReleaseDelay(index, len, d) == index * d

MayRun(t) ==
  /\ t.at <= obsClock
  /\ \A u \in obsTimers :
       (u.seq < t.seq /\ u.at - u.set <= t.at - t.set /\ u.set <= t.set)
         => u = t

\* the MutationObserver callback with len added element nodes
ObserverCallback(len) ==
  /\ obsBatches < MaxBatches
  /\ obsBatches' = obsBatches + 1
  /\ obsTimers' = obsTimers \cup
       {[node |-> <<obsBatches + 1, i>>,
         set |-> obsClock,
         at |-> obsClock + ReleaseDelay(i, len, obsRequestDelay),
         seq |-> obsSeq + i] : i \in 0..(len - 1)}
  /\ obsSeq' = obsSeq + len
  /\ UNCHANGED <<obsRequestDelay, obsClock, obsReleased>>
  /\ UNCHANGED nonObserverVars

\* a timeout of the callback runs: nodeProcessor(node)
RunTimeout ==
  /\ \E t \in obsTimers :
       /\ MayRun(t)
       /\ obsTimers' = obsTimers \ {t}
       /\ obsReleased' = Append(obsReleased, t.node)
  /\ UNCHANGED <<obsRequestDelay, obsClock, obsBatches, obsSeq>>
  /\ UNCHANGED nonObserverVars

\* time passes; timeouts that are due run first
ObserverTick ==
  /\ obsClock < MaxObsTicks * ObsTick
  /\ \A t \in obsTimers : t.at > obsClock
  /\ obsClock' = obsClock + ObsTick
  /\ UNCHANGED <<obsRequestDelay, obsTimers, obsReleased, obsBatches, obsSeq>>
  /\ UNCHANGED nonObserverVars

InitObserver ==
  /\ obsRequestDelay \in ObserverDelays
  /\ obsClock = 0
  /\ obsTimers = {}
  /\ obsReleased = <<>>
  /\ obsBatches = 0
  /\ obsSeq = 0
  /\ QueueIdle
  /\ CacheIdle
  /\ ContentIdle
  /\ ReconnectIdle
  /\ EngineIdle
  /\ CallIdle

NextObserver ==
  \/ \E len \in 1..MaxBatchLen : ObserverCallback(len)
  \/ RunTimeout
  \/ ObserverTick

SpecObserver == InitObserver /\ [][NextObserver]_vars

(***************************************************************************)
(* Reconnection after the extension context was invalidated.               *)
(* content.js counts the detections in the session counter                 *)
(* twitch_gemini_retry_count and uses the count only to choose the delay;  *)
(* content_refactored.js compares appState.retryCount with maxRetries.     *)
(***************************************************************************)
MAX_RETRIES == 5
MAX_RETRY_DELAY == 10000
CHECK_RETRY_DELAY_LONG == 30000
REFACTORED_RETRY_DELAY == 2000

\* content.js debouncedHandleContextInvalidated: disconnect the observer,
\* count the detection, and unless the flag was set within the last 30 s set
\* it and schedule the re-initialisation after min(retryCount * 1000, 10000).
DetectInvalidatedContent ==
  /\ rimpl = "content"
  /\ retryEvents < MaxRetryEvents
  /\ retryEvents' = retryEvents + 1
  /\ observing' = FALSE
  /\ retryCount' = retryCount + 1
  /\ capExceeded' = (capExceeded \/ retryCount' > MAX_RETRIES)
  /\ IF ~invalidationRecent
       THEN /\ invalidationRecent' = TRUE
            /\ reconnectTimers' = reconnectTimers + 1
            /\ attempts' = attempts + 1
            /\ lastDelay' = [attempt |-> retryCount',
                             delay |-> Min(retryCount' * RETRY_DELAY, MAX_RETRY_DELAY)]
            /\ recentAttempt' = TRUE
       ELSE UNCHANGED <<invalidationRecent, reconnectTimers, attempts, lastDelay,
                        recentAttempt>>
  /\ UNCHANGED <<rimpl, initialized>>
  /\ UNCHANGED nonReconnectVars

\* content.js checkExtensionContext, catch branch: stop observing, count the
\* detection, schedule the re-initialisation after 3 s (30 s from the fourth
\* detection on) and the next check after 5 s.
CheckContextThrows ==
  /\ rimpl = "content"
  /\ retryEvents < MaxRetryEvents
  /\ retryEvents' = retryEvents + 1
  /\ observing' = FALSE
  /\ retryCount' = retryCount + 1
  /\ capExceeded' = (capExceeded \/ retryCount' > MAX_RETRIES)
  /\ reconnectTimers' = reconnectTimers + 1
  /\ attempts' = attempts + 1
  /\ lastDelay' = [attempt |-> retryCount',
                   delay |-> IF retryCount' > 3 THEN CHECK_RETRY_DELAY_LONG
                             ELSE CHECK_RETRY_DELAY]
  /\ recentAttempt' = TRUE
  /\ UNCHANGED <<rimpl, invalidationRecent, initialized>>
  /\ UNCHANGED nonReconnectVars

\* content.js, the scheduled callback: with local settings that enable the
\* extension it starts observing again, then initialize() removes the flag;
\* connected says whether the background answered this time.
ReinitContent(restart, connected) ==
  /\ rimpl = "content"
  /\ reconnectTimers > 0
  /\ reconnectTimers' = reconnectTimers - 1
  /\ observing' = (observing \/ restart \/ connected)
  /\ invalidationRecent' = FALSE
  /\ attempts' = IF connected THEN 0 ELSE attempts
  /\ UNCHANGED <<rimpl, retryCount, retryEvents, initialized, capExceeded, lastDelay,
                 recentAttempt>>
  /\ UNCHANGED nonReconnectVars

\* 30 s pass since the latest re-initialisation was scheduled, and so since
\* twitch_gemini_context_invalidated was written.
FlagExpires ==
  /\ rimpl = "content"
  /\ invalidationRecent \/ recentAttempt
  /\ invalidationRecent' = FALSE
  /\ recentAttempt' = FALSE
  /\ UNCHANGED <<rimpl, retryCount, reconnectTimers, observing, attempts,
                 retryEvents, initialized, capExceeded, lastDelay>>
  /\ UNCHANGED nonReconnectVars

\* content_refactored.js handleContextInvalidated and the debounced handler:
\* reset the state, stop observing, count the detection and schedule the
\* re-initialisation only while retryCount <= maxRetries.
DetectInvalidatedRefactored ==
  /\ rimpl = "refactored"
  /\ retryEvents < MaxRetryEvents
  /\ retryEvents' = retryEvents + 1
  /\ initialized' = FALSE
  /\ observing' = FALSE
  /\ retryCount' = retryCount + 1
  /\ capExceeded' = (capExceeded \/ retryCount' > MAX_RETRIES)
  /\ IF retryCount' <= MAX_RETRIES
       THEN /\ reconnectTimers' = reconnectTimers + 1
            /\ attempts' = attempts + 1
            /\ lastDelay' = [attempt |-> retryCount',
                             delay |-> REFACTORED_RETRY_DELAY * retryCount']
       ELSE UNCHANGED <<reconnectTimers, attempts, lastDelay>>
  /\ UNCHANGED <<rimpl, invalidationRecent, recentAttempt>>
  /\ UNCHANGED nonReconnectVars

\* content_refactored.js, the scheduled debouncedInitialize -> initialize():
\* nothing when already initialized; otherwise it observes when the settings
\* enable the extension and resets retryCount, unless a step of it throws.
ReinitRefactored(enabled, ok) ==
  /\ rimpl = "refactored"
  /\ reconnectTimers > 0
  /\ reconnectTimers' = reconnectTimers - 1
  /\ IF initialized
       THEN UNCHANGED <<observing, initialized, retryCount, attempts>>
       ELSE IF ok
         THEN /\ observing' = enabled
              /\ initialized' = TRUE
              /\ retryCount' = 0
              /\ attempts' = 0
         ELSE UNCHANGED <<observing, initialized, retryCount, attempts>>
  /\ UNCHANGED <<rimpl, invalidationRecent, retryEvents, capExceeded, lastDelay,
                 recentAttempt>>
  /\ UNCHANGED nonReconnectVars

InitReconnect ==
  /\ rimpl \in {"content", "refactored"}
  /\ retryCount = 0
  /\ invalidationRecent = FALSE
  /\ reconnectTimers = 0
  /\ observing \in BOOLEAN
  /\ attempts = 0
  /\ retryEvents = 0
  /\ initialized = (rimpl = "refactored")
  /\ capExceeded = FALSE
  /\ lastDelay = [attempt |-> 0, delay |-> 0]
  /\ recentAttempt = FALSE
  /\ QueueIdle
  /\ CacheIdle
  /\ ContentIdle
  /\ ObserverIdle
  /\ EngineIdle
  /\ CallIdle

NextReconnect ==
  \/ DetectInvalidatedContent
  \/ CheckContextThrows
  \/ \E restart \in BOOLEAN, connected \in BOOLEAN : ReinitContent(restart, connected)
  \/ FlagExpires
  \/ DetectInvalidatedRefactored
  \/ \E enabled \in BOOLEAN, ok \in BOOLEAN : ReinitRefactored(enabled, ok)

SpecReconnect == InitReconnect /\ [][NextReconnect]_vars


(***************************************************************************)
(* The engine field of the results the background script sends back.       *)
(*   "modules":    background/modules/cache.js with the translate handler  *)
(*   "background": background.js                                           *)
(*   "obj":        the cache section of background/modules/settings.js     *)
(* A stored result carries engine "gemini" or "chrome", or no engine field *)
(* ("none"); "absent" means that nothing is stored under the key.  Only    *)
(* the field is modelled: expiry and eviction are in the cache component.  *)
(***************************************************************************)
\* engine fields of the results that reach cacheTranslation: translator.js
\* always sets "gemini" (an entry loaded from an older snapshot may lack the
\* field); background.js sets "chrome" and leaves the Gemini result without
EnginesStored ==
  CASE eimpl = "modules" -> {"gemini", "none"}
    [] eimpl = "background" -> {"chrome", "none"}
    [] OTHER -> {"gemini"}

\* getCachedTranslation of a stored result, then the translate handler:
\* modules/cache.js writes "cached" into the stored object only when it has
\* no engine; background.js and settings.js return the stored object as is
TagOnHit(e) ==
  IF eimpl = "modules" /\ e = "none" THEN "cached" ELSE e

\* translateText on a cache miss: the result of the engine is stored and sent
TranslateMiss(k, e) ==
  /\ eimpl \in {"modules", "background", "obj"}
  /\ cachedEngine[k] = "absent"
  /\ e \in EnginesStored
  /\ cachedEngine' = [cachedEngine EXCEPT ![k] = e]
  /\ served' = [key |-> k, engine |-> e, fromCache |-> FALSE]
  /\ UNCHANGED eimpl
  /\ UNCHANGED nonEngineVars

\* a translate request whose key is stored: the handler sends the object
\* returned by getCachedTranslation, which is the stored object itself
ServeCached(k) ==
  /\ eimpl \in {"modules", "background", "obj"}
  /\ cachedEngine[k] # "absent"
  /\ cachedEngine' = [cachedEngine EXCEPT ![k] = TagOnHit(@)]
  /\ served' = [key |-> k, engine |-> TagOnHit(cachedEngine[k]), fromCache |-> TRUE]
  /\ UNCHANGED eimpl
  /\ UNCHANGED nonEngineVars

\* the entry expires, is evicted or the cache is cleared
DropCached(k) ==
  /\ eimpl \in {"modules", "background", "obj"}
  /\ cachedEngine[k] # "absent"
  /\ cachedEngine' = [cachedEngine EXCEPT ![k] = "absent"]
  /\ UNCHANGED <<eimpl, served>>
  /\ UNCHANGED nonEngineVars

InitEngine ==
  /\ eimpl \in {"modules", "background", "obj"}
  /\ cachedEngine = [k \in Keys |-> "absent"]
  /\ served = [key |-> "", engine |-> "none", fromCache |-> FALSE]
  /\ QueueIdle
  /\ CacheIdle
  /\ ContentIdle
  /\ ObserverIdle
  /\ ReconnectIdle
  /\ CallIdle

NextEngine ==
  \/ \E k \in Keys, e \in {"gemini", "chrome", "none"} : TranslateMiss(k, e)
  \/ \E k \in Keys : ServeCached(k)
  \/ \E k \in Keys : DropCached(k)

SpecEngine == InitEngine /\ [][NextEngine]_vars

(***************************************************************************)
(* utils/language.js: which message texts are translated.  A text is       *)
(* modelled by what the function looks at: whether it is null, and how     *)
(* many of its characters are Japanese, ASCII letters, symbols / digits /  *)
(* white space, and anything else.  The ratios are compared as fractions.  *)
(***************************************************************************)
Texts ==
  {t \in [isNull : BOOLEAN, japanese : 0..MaxTextLen, english : 0..MaxTextLen,
          symbols : 0..MaxTextLen, others : 0..MaxTextLen] :
     /\ t.japanese + t.english + t.symbols + t.others <= MaxTextLen
     /\ t.isNull => t.japanese + t.english + t.symbols + t.others = 0}

TextLength(t) == t.japanese + t.english + t.symbols + t.others

\* getJapaneseRatio / getEnglishRatio (0 for an empty text) >= percent / 100
RatioAtLeast(chars, t, percent) ==
  IF TextLength(t) = 0 THEN 0 >= percent
  ELSE chars * 100 >= percent * TextLength(t)

isEnglishText(t) == RatioAtLeast(t.english, t, 50)

shouldTranslate(t, settings) ==
  IF TextLength(t) = 0 THEN FALSE
  ELSE IF RatioAtLeast(t.japanese, t, settings.japaneseThreshold) THEN FALSE
  ELSE IF RatioAtLeast(t.english, t, settings.englishThreshold) THEN TRUE
  ELSE IF TextLength(t) - t.symbols < 3 THEN FALSE
  ELSE t.english > t.japanese

shouldTranslateBasedOnMode(t, settings) ==
  CASE settings.translationMode = "all" -> TRUE
    [] settings.translationMode = "english" -> isEnglishText(t)
    [] OTHER -> shouldTranslate(t, settings)

CallShouldTranslate ==
  /\ callName = "none"
  /\ callName' = "shouldTranslateBasedOnMode"
  /\ callOutput' = shouldTranslateBasedOnMode(callInput.text, callInput.settings)
  /\ UNCHANGED callInput
  /\ UNCHANGED nonCallVars

InitLanguage ==
  /\ callName = "none"
  /\ callInput \in [text : Texts,
                    settings : [translationMode : {"all", "english", "selective", ""},
                                japaneseThreshold : {10, 30},
                                englishThreshold : {50}]]
  /\ callOutput = <<>>
  /\ QueueIdle
  /\ CacheIdle
  /\ ContentIdle
  /\ ObserverIdle
  /\ ReconnectIdle
  /\ EngineIdle

SpecLanguage == InitLanguage /\ [][CallShouldTranslate]_vars

(***************************************************************************)
(* Validation of the numeric settings when the settings are loaded.        *)
(*   "ui":         validateSettings of the options / popup settings module *)
(*   "settings":   validateSettings of background/modules/settings.js      *)
(*   "background": loadSettings of the settings module used by the         *)
(*                 background handlers, which has no validation step       *)
(* A stored value is [type, nan, n]: its JavaScript type ("number",        *)
(* "string", or "other" for undefined, null, booleans and objects) and the *)
(* number it holds; for a string, nan and n are what parseInt(value, 10)   *)
(* returns.                                                                *)
(***************************************************************************)
\* VALIDATION_RULES.numericRanges with DEFAULT_SETTINGS[key]
NumericRanges ==
  {[key |-> "japaneseThreshold", min |-> 10, max |-> 50, default |-> 30],
   [key |-> "englishThreshold", min |-> 30, max |-> 70, default |-> 50],
   [key |-> "maxCacheAge", min |-> 1, max |-> 168, default |-> 24],
   [key |-> "requestDelay", min |-> 0, max |-> 1000, default |-> 100]}

\* values chrome.storage may hold under the key of rule r
StoredValues(r) ==
  {v \in [type : {"number", "string", "other"}, nan : BOOLEAN,
          n : {r.min - 1, r.min, r.default, r.max, r.max + 1}] :
     /\ v.nan => v.n = r.default
     /\ v.type = "other" => v.nan}

\* a string goes through parseInt; NaN and values that are not numbers take
\* the default; numbers are limited with Math.max(min, Math.min(max, value))
ensureNumericValue(v, r) ==
  [type |-> "number", nan |-> FALSE,
   n |-> IF v.nan \/ v.type = "other" THEN r.default
         ELSE IF v.n < r.min THEN r.min
         ELSE Min(r.max, v.n)]

\* the value of the setting after the settings were loaded
LoadedValue(impl, v, r) ==
  IF impl = "background" THEN v ELSE ensureNumericValue(v, r)

CallLoadSettings ==
  /\ callName = "none"
  /\ callName' = "loadSettings"
  /\ callOutput' = LoadedValue(callInput.impl, callInput.value, callInput.rule)
  /\ UNCHANGED callInput
  /\ UNCHANGED nonCallVars

InitSettings ==
  /\ callName = "none"
  /\ \E impl \in {"ui", "settings", "background"}, r \in NumericRanges :
       \E v \in StoredValues(r) : callInput = [impl |-> impl, rule |-> r, value |-> v]
  /\ callOutput = <<>>
  /\ QueueIdle
  /\ CacheIdle
  /\ ContentIdle
  /\ ObserverIdle
  /\ ReconnectIdle
  /\ EngineIdle

SpecSettings == InitSettings /\ [][CallLoadSettings]_vars

(***************************************************************************)
(* C2: while the grace period runs, from the handling of a channel change  *)
(* until GRACE_PERIOD_DURATION later, no feed entry is submitted for       *)
(* translation.                                                            *)
(***************************************************************************)
C2_NoSubmitDuringGrace ==
  (chimpl = "content" /\ lastEvent.kind = "submit") => ~(clock < graceDeadline)

(***************************************************************************)
(* C3: between two navigations the same entry identifier is submitted for  *)
(* translation at most once, however often the entry is observed again.    *)
(***************************************************************************)
C3_SubmittedAtMostOnce ==
  chimpl = "content" => \A m \in Ids : submitted[m] <= 1

(***************************************************************************)
(* C4: an entry whose release was scheduled before a channel change was    *)
(* handled and fires after it is dropped, never submitted.                 *)
(***************************************************************************)
C4_StaleReleaseDropped ==
  (chimpl = "content" /\ lastEvent.kind = "submit") => lastEvent.gen = generation

(***************************************************************************)
(* C10: while the page stays a channel page, a grace timer ends the grace  *)
(* period only one full GRACE_PERIOD_DURATION after the most recent        *)
(* handled channel change, never at an earlier timer's deadline.           *)
(***************************************************************************)
C10_GraceEndsAtLastDeadline ==
  (lastEvent.kind = "graceTimer" /\ graceDeadline # -1) => clock = graceDeadline

(***************************************************************************)
(* C11: a node that was in the feed when the grace timer fired is treated  *)
(* as an existing message from then on: it never carries the tag of a new  *)
(* message afterwards.                                                     *)
(***************************************************************************)
C11_VisibleAtGraceEndStaysHistorical ==
  chimpl = "content" =>
    \A m \in visibleAtGraceEnd \cap dom : Historical(nodeTag[m])

(***************************************************************************)
(* C12: while the page is not a channel page, after a URL change away from *)
(* a channel, no feed entry is submitted for translation.                  *)
(***************************************************************************)
C12_NoSubmitOffChannel ==
  (chimpl = "content" /\ lastEvent.kind = "submit") => onChannelPage

(***************************************************************************)
(* C13: the channel change that is handled after a burst of URL changes is *)
(* the one for the last URL of the burst: handleChannelChange never runs   *)
(* when the last URL change of the burst left the channel pages.           *)
(***************************************************************************)
ChannelChangeStep == generation' = generation + 1

C13_HandlesLastTarget ==
  [][(chimpl = "content" /\ ChannelChangeStep) => onChannelPage]_vars

(***************************************************************************)
(* C14: a node treated as an existing message is sent for translation only *)
(* if processExistingMessages is set, no grace period is active and no     *)
(* channel change is flagged; otherwise processChatMessage returns.        *)
(***************************************************************************)
C14_HistoricalOnlyWhenAllowed ==
  (chimpl = "content" /\ lastEvent.kind = "submit"
     /\ Historical(nodeTag[lastEvent.id]))
    => /\ processExistingMessages
       /\ ~inGracePeriod
       /\ ~(clock < graceDeadline)
       /\ ~channelChanged
       /\ ~preventExisting

C14_Witness ==
  /\ chimpl = "content"
  /\ lastEvent.kind = "submit"
  /\ Historical(nodeTag[lastEvent.id])

(***************************************************************************)
(* C15: a node added to the feed once the grace-period deadline has passed *)
(* is scheduled to be tagged as a new message by the connected observer.   *)
(***************************************************************************)
MutationStep == muts' = muts + 1

C15_LiveAfterDeadline ==
  [][(/\ chimpl = "content"
      /\ MutationStep
      /\ observer # "null"
      /\ graceDeadline # -1
      /\ clock >= graceDeadline
      /\ ~inGracePeriod)
     => \A r \in releases' \ releases : r.mode = "new"]_vars

(***************************************************************************)
(* C16: the nodes of one batch are handed to nodeProcessor in the order in *)
(* which the batch listed them, for every requestDelay (0 included).       *)
(***************************************************************************)
C16_BatchOrderKept ==
  \A i, j \in 1..Len(obsReleased) :
    (i < j /\ obsReleased[i][1] = obsReleased[j][1])
      => obsReleased[i][2] < obsReleased[j][2]

C16_Witness ==
  /\ obsRequestDelay = 0
  /\ \E i, j \in 1..Len(obsReleased) :
       /\ i < j
       /\ obsReleased[i][1] = obsReleased[j][1]
       /\ obsReleased[j][2] = MaxBatchLen - 1

(***************************************************************************)
(* C17: no node of a later batch is handed to nodeProcessor before a node  *)
(* of an earlier batch.                                                    *)
(***************************************************************************)
C17_ArrivalOrderKept ==
  \A i, j \in 1..Len(obsReleased) :
    i < j => obsReleased[i][1] <= obsReleased[j][1]

(***************************************************************************)
(* C20: from the moment a translate request fails with the invalidated     *)
(* context until the re-initialisation is attempted, no observer is        *)
(* attached and no feed entry is sent for translation.                     *)
(***************************************************************************)
C20_HaltedUntilReconnect ==
  (chimpl = "content" /\ halted)
    => (observer = "null" /\ lastEvent.kind # "submit")

(***************************************************************************)
(* C21: in any run of consecutive detections of the invalidated context,   *)
(* at most MAX_RETRIES re-initialisations are scheduled; once the cap is   *)
(* reached no further one is scheduled.                                    *)
(***************************************************************************)
C21_ReconnectAttemptsCapped == attempts <= MAX_RETRIES

(***************************************************************************)
(* C22: once a detection found the retry count beyond the cap, no observer *)
(* is attached to the feed again during this page load.                    *)
(***************************************************************************)
C22_StoppedBeyondCap == capExceeded => ~observing

(***************************************************************************)
(* C23: a put of a new key into a cache that holds the maximum number of   *)
(* entries removes exactly one entry, the least recently used one; a put   *)
(* into a cache with fewer entries removes none.                           *)
(***************************************************************************)
NewKeyPutStep == PutStep /\ lastOp'.key \notin KeysOf(translationCache)

RemovedByStep == KeysOf(translationCache) \ KeysOf(translationCache')

RemovesExactlyTheLru ==
  IF Len(translationCache) >= MAX_CACHE_SIZE
    THEN /\ Cardinality(RemovedByStep) = 1
         /\ lastOp'.key \in KeysOf(translationCache')
         /\ EvictsLeastRecent
    ELSE RemovedByStep = {}

C23_PutRemovesExactlyOne == [][NewKeyPutStep => RemovesExactlyTheLru]_vars

(***************************************************************************)
(* C24: a navigation to a page that is not a channel page leaves the set   *)
(* of already translated message identifiers unchanged.                    *)
(***************************************************************************)
NonChannelNavStep == navs' = navs + 1 /\ ~onChannelPage'

C24_NonChannelNavKeepsDedup ==
  [][NonChannelNavStep => translatedComments' = translatedComments]_vars

(***************************************************************************)
(* C25: identifiers leave the set of already translated messages only in   *)
(* the handling of a channel change (handleChannelChange and the           *)
(* re-initialisation it schedules); no other step removes one.             *)
(***************************************************************************)
DedupShrinkStep == translatedComments \ translatedComments' # {}

ChannelTransitionHandling ==
  \/ ChannelChangeStep
  \/ \E t \in timers : t.kind = "reinit" /\ Due(t) /\ t \notin timers'

C25_DedupClearedOnlyOnChannelChange ==
  [][DedupShrinkStep => ChannelTransitionHandling]_vars

(***************************************************************************)
(* C26: every result served from the cache carries the engine tag          *)
(* "cached".                                                               *)
(***************************************************************************)
C26_CachedResultTagged == served.fromCache => served.engine = "cached"

(***************************************************************************)
(* C27: a snapshot written to durable storage contains no entry that is    *)
(* already expired at the time of the write.                               *)
(***************************************************************************)
SnapshotWriteStep == cacheSnapshot' # cacheSnapshot

ExpiredAtWrite(e) ==
  IF cimpl = "obj" THEN ObjExpired(e, now) ELSE MapExpired(e, now)

C27_SnapshotHasNoExpiredEntry ==
  [][(cimpl \in {"map", "obj"} /\ SnapshotWriteStep)
       => \A i \in 1..Len(cacheSnapshot') : ~ExpiredAtWrite(cacheSnapshot'[i])]_vars

InRange(v, r) == v.type = "number" /\ ~v.nan /\ r.min <= v.n /\ v.n <= r.max

C29_NumericSettingsInRange ==
  callName = "loadSettings" => InRange(callOutput, callInput.rule)

(***************************************************************************)
(* C30: the result of a translate request that was in flight when a        *)
(* channel change was handled is discarded: its message is not recorded    *)
(* in translatedComments of the new session.                               *)
(***************************************************************************)
StaleResponseStep(m) ==
  /\ inflight[m] = 1 /\ inflight'[m] = 0
  /\ sentGen[m] # -1 /\ sentGen[m] < generation

C30_StaleResultDiscarded ==
  [][\A m \in Ids :
       (StaleResponseStep(m) /\ m \notin translatedComments)
         => m \notin translatedComments']_vars

(***************************************************************************)
(* C31: when the release timer of an added node fires, the node is tagged  *)
(* as an existing message exactly if the grace period is active at that    *)
(* moment, whatever the state was when the node was observed or when the   *)
(* observer was created.                                                   *)
(***************************************************************************)
TimerReleaseStep(r) == r \in releases /\ r \notin releases' /\ r.mode # "asis"

C31_TagFromGraceStateAtRelease ==
  [][\A r \in releases :
       TimerReleaseStep(r) => (Historical(nodeTag'[r.id]) <=> inGracePeriod)]_vars

(***************************************************************************)
(* C32: the delay of the re-initialisation scheduled at retry count n is   *)
(* n times the base delay of the script and never more than 10 seconds.    *)
(***************************************************************************)
RetryBase == IF rimpl = "refactored" THEN REFACTORED_RETRY_DELAY ELSE RETRY_DELAY

C32_ReconnectDelayLinearAndCapped ==
  /\ lastDelay.delay <= MAX_RETRY_DELAY
  /\ lastDelay.delay = Min(lastDelay.attempt * RetryBase, MAX_RETRY_DELAY)

(***************************************************************************)
(* C33: whenever the grace-period flag is set, a timer that will clear it  *)
(* is pending.                                                             *)
(***************************************************************************)
C33_GraceFlagHasPendingTimer ==
  inGracePeriod => \E t \in timers : t.kind \in {"grace", "graceAnon"}

(***************************************************************************)
(* C34: once a channel transition has completed (its grace period is over  *)
(* and its channel-changed flag has been consumed), an attach with         *)
(* process-historical enabled forwards the entries already in the feed.    *)
(***************************************************************************)
AttachStep ==
  /\ onChannelPage
  /\ \E t \in timers : t.kind = "find" /\ Due(t) /\ timers' = timers \ {t}
  /\ observer' # "null"

TransitionCompleted == generation > 0 /\ ~inGracePeriod /\ ~channelChanged

C34_HistoricalForwardedAfterTransition ==
  [][(AttachStep /\ chimpl = "content" /\ processExistingMessages
        /\ TransitionCompleted)
       => \A m \in dom : \E r \in releases' : r.id = m /\ r.mode = "asis"]_vars

(***************************************************************************)
(* Every handler of content.js that connects or disconnects the feed        *)
(* observer, or that schedules one that does: initialisation, URL changes, *)
(* the channel-change handlers, the debounced start-observing timer and    *)
(* the reconnection retry after a failed context check.                    *)
(***************************************************************************)
NextAttach ==
  \/ \E ch \in BOOLEAN : UrlChange(ch)
  \/ HandleChannelChange
  \/ GraceTimer
  \/ Reinitialize
  \/ StartObserving
  \/ ObserveChatMessages
  \/ ContextCheckFails
  \/ ContextRetryInit
  \/ Advance

SpecAttach == InitReload /\ [][NextAttach]_vars

(***************************************************************************)
(* C35: at most one feed observer is attached at any time.                 *)
(***************************************************************************)
C35_AtMostOneObserverAttached == attached <= 1

C35_Witness ==
  /\ attached = 1
  /\ observer # "null"
  /\ \E t \in timers : t.kind = "find" /\ Due(t)

(***************************************************************************)
(* C36, as stated: a translate call that fails leaves the cache unchanged. *)
(***************************************************************************)
FailStep(k) == lastOp'.kind = "fail" /\ lastOp'.key = k

C36_FailLeavesCacheUnchanged ==
  [][\A k \in Keys : FailStep(k) => translationCache' = translationCache]_vars

(***************************************************************************)
(* C36, amended: a translate call that fails stores nothing: every entry   *)
(* the cache holds afterwards was there before, unaltered; the only entry  *)
(* that can disappear is the expired one under the request's own key; and  *)
(* the key is not in the cache afterwards, so the next identical request   *)
(* misses and invokes the external operation again.                        *)
(***************************************************************************)
C36_FailStoresNothing ==
  [][\A k \in Keys :
       FailStep(k) =>
         /\ \A i \in 1..Len(translationCache') :
              \E j \in 1..Len(translationCache) :
                translationCache'[i] = translationCache[j]
         /\ KeysOf(translationCache) \ KeysOf(translationCache') \subseteq {k}
         /\ k \notin KeysOf(translationCache')]_vars

C36_Witness ==
  /\ lastOp.kind = "fail"
  /\ Len(translationCache) > 0
  /\ now > 0

(***************************************************************************)
(* C37: at most one re-initialisation attempt is scheduled in any 30-second*)
(* window: when the invalidation handler schedules an attempt, none was    *)
(* scheduled during the preceding 30 seconds.                              *)
(***************************************************************************)
HandlerSchedulesStep ==
  /\ rimpl = "content"
  /\ ~invalidationRecent
  /\ invalidationRecent'
  /\ reconnectTimers' = reconnectTimers + 1

C37_OneAttemptPerWindow == [][HandlerSchedulesStep => ~recentAttempt]_vars

(***************************************************************************)
(* C38: cancelAllRequests does not affect the translate calls in flight:   *)
(* the cancel step leaves them and the counter alone, an item in flight    *)
(* only ever leaves that state by the settlement of its own call (resolved *)
(* or rejected, never cancelled), and the queue goes on dispatching: an    *)
(* item waits in the pending list only while the limit is reached.         *)
(***************************************************************************)
C38_CancelLeavesInFlightAlone ==
  [][qimpl = "v1" =>
       /\ CancelStep =>
            /\ \A i \in InFlight : status'[i] = "inflight"
            /\ pendingRequests' = pendingRequests
       /\ \A i \in InFlight : status'[i] \in {"inflight", "resolved", "rejected"}
       /\ Len(requestQueue') > 0 => pendingRequests' = MAX_CONCURRENT_REQUESTS]_vars

\* item c was cancelled while item i was in flight; i has settled since and an
\* item enqueued after the cancel has been dispatched
C38_Witness ==
  /\ qimpl = "v1"
  /\ \E c \in Items, i \in Items, n \in Items :
       /\ status[c] = "cancelled"
       /\ i < c /\ status[i] \in {"resolved", "rejected"}
       /\ n > c /\ status[n] \in {"inflight", "resolved"}

(***************************************************************************)
(* C39: the in-flight counter equals the number of translate calls started *)
(* and not yet settled, so it is never negative and is 0 when no call is   *)
(* outstanding.                                                            *)
(***************************************************************************)
C39_CounterEqualsInFlight ==
  qimpl = "v1" =>
    /\ pendingRequests = Cardinality(InFlight)
    /\ pendingRequests >= 0
    /\ (InFlight = {} => pendingRequests = 0)

\* the counter has gone up and come down: calls are running, others have settled
C39_Witness ==
  /\ qimpl = "v1"
  /\ pendingRequests >= 1
  /\ pendingRequests = Cardinality(InFlight)
  /\ \E i \in Items : status[i] \in {"resolved", "rejected"}

====
